---------------------------- MODULE Spec2Model ----------------------------
(***************************************************************************)
(* BEAR-PONG: one GameSession (src/src/GameSession.ts, first class in the  *)
(* file) together with the part of the dispatcher (src/src/index.ts) that  *)
(* routes a connection's commands to it.                                   *)
(*                                                                         *)
(* Numbers.  The code computes in IEEE doubles.  The model computes in     *)
(* fixed point: every velocity component is an integer number of 1/SCALE   *)
(* pixels per tick and every length an integer number of 1/PIXEL pixels,   *)
(* so that the ball's displacement, velocity times multiplier, is exact.   *)
(* Products with a factor that is not an integer and quotients are rounded *)
(* toward zero (Div).  Math.sqrt is the integer square root, rounded down  *)
(* (Isqrt) where the code compares or scales up with it and rounded up     *)
(* (IsqrtUp) where the code divides by it to cap the speed, so that the    *)
(* fixed-point cap never exceeds the real-valued one.  A comparison of two *)
(* doubles whose exact values are equal can go either way (DoubleLeq).     *)
(*                                                                         *)
(* Timers.  setInterval/setTimeout handles are modelled by the field that  *)
(* holds the handle (NULL, LIVE, or DEAD for a timeout that has fired) and *)
(* by the number of live timers of each kind, because the code overwrites  *)
(* handle fields without clearing the timer they referred to.              *)
(***************************************************************************)
EXTENDS Integers, Sequences, FiniteSets, TLC

---------------------------------------------------------------------------
(* Program constants (GAME_CONFIG, src/src/types.ts), in model units.      *)

\* ballSpeedMultiplier in tenths: 1 is 10, the slow fraction 0.1 is 1
NORMAL_MULTIPLIER == 10
SLOW_MULTIPLIER == 1

\* resolution of a velocity component: two decimal digits of a pixel per tick
SCALE == 10 * 10
\* resolution of a length: a velocity times a multiplier in tenths
PIXEL == NORMAL_MULTIPLIER * SCALE

\* JavaScript values that are not numbers: undefined, the value of a key that
\* an object does not have (a field missing from a message, a key missing
\* from GAME_CONFIG), and NaN, the result of arithmetic on it.  Each is
\* encoded by an integer that no number of the model reaches.
NaN == -1000000000
UNDEFINED == -1000000001
IsNumber(v) == v # NaN /\ v # UNDEFINED

CANVAS_WIDTH == 1280 * PIXEL
CANVAS_HEIGHT == 720 * PIXEL
PADDLE_WIDTH == 20 * PIXEL
PADDLE_HEIGHT == 120 * PIXEL
BALL_SIZE == 20 * PIXEL
INITIAL_BALL_SPEED == 6 * SCALE
MAX_BALL_SPEED == 15 * SCALE
\* BALL_SPEED_INCREMENT is 0.3: speedMultiplier = 1 + 0.3 = 13/10
BALL_SPEED_INCREMENT_TENTHS == 3
WINNING_SCORE == 3
COUNTDOWN_DURATION == 3

\* GAME_CONFIG.MIN_PADDLE_HEIGHT and GAME_CONFIG.PADDLE_SHRINK_PER_HIT are
\* read by speedUpBall, but GAME_CONFIG (types.ts) has neither key: both
\* reads give undefined.
MIN_PADDLE_HEIGHT == UNDEFINED
PADDLE_SHRINK_PER_HIT == UNDEFINED

\* literals of GameSession.ts
BASE_PADDING == 50 * PIXEL
SPEED_SCALING == 8
PADDLE_MARGIN == 50 * PIXEL
HIT_SAFETY_MARGIN == 2 * PIXEL
FAST_SPEED == 10 * SCALE
PERFECT_HIT_ZONE == (15 * (PADDLE_HEIGHT \div 2)) \div 100
POWER_HIT_STEPS == 8
SCORE_COUNTDOWN_START == 3
TIME_FREEZE_MS == 4000

paddle1Left == PADDLE_MARGIN
paddle1Right == paddle1Left + PADDLE_WIDTH
paddle2Left == CANVAS_WIDTH - PADDLE_MARGIN - PADDLE_WIDTH
paddle2Right == paddle2Left + PADDLE_WIDTH

NULL == "null"
LIVE == "live"
DEAD == "dead"

Players == {1, 2}
\* the connections to the server: the two players of the session and a third
\* client
Clients == {1, 2, 3}
Other(p) == 3 - p
SideOf(p) == IF p = 1 THEN "left" ELSE "right"
AbilityKinds == {"time_freeze", "paddle_dash", "power_hit"}

---------------------------------------------------------------------------
(* Arithmetic helpers                                                      *)

Abs(a) == IF a < 0 THEN -a ELSE a
Sign(a) == IF a < 0 THEN -1 ELSE IF a > 0 THEN 1 ELSE 0
Min(a, b) == IF a <= b THEN a ELSE b
Max(a, b) == IF a >= b THEN a ELSE b

\* the same on JavaScript values: a comparison with undefined or NaN is
\* false, Math.max, Math.min and - give NaN when an operand is not a number
JsMax(a, b) == IF IsNumber(a) /\ IsNumber(b) THEN Max(a, b) ELSE NaN
JsMin(a, b) == IF IsNumber(a) /\ IsNumber(b) THEN Min(a, b) ELSE NaN

\* quotient rounded toward zero, b # 0
Div(a, b) == Sign(a) * Sign(b) * (Abs(a) \div Abs(b))

RECURSIVE IsqrtBetween(_, _, _)
IsqrtBetween(n, lo, hi) ==
  IF lo >= hi THEN lo
  ELSE LET mid == (lo + hi + 1) \div 2
       IN IF mid * mid <= n THEN IsqrtBetween(n, mid, hi)
                            ELSE IsqrtBetween(n, lo, mid - 1)

\* floor(sqrt(n)) for 0 <= n < 2^30
Isqrt(n) == IsqrtBetween(n, 0, 32767)
\* ceiling(sqrt(n))
IsqrtUp(n) == LET r == Isqrt(n) IN IF r * r = n THEN r ELSE r + 1

SpeedSq(vx, vy) == vx * vx + vy * vy

\* a <= b on doubles: the outcomes the comparison can have.  The model
\* computes exact values; two doubles whose exact values differ compare as the
\* exact values do.  When the exact values are equal, the doubles differ by
\* the rounding errors of the operations that produced them, so that a <= b
\* may hold or fail.
DoubleLeq(a, b) == IF a = b THEN BOOLEAN ELSE {a < b}
\* Math.sqrt(vx*vx + vy*vy)
Speed(vx, vy) == Isqrt(SpeedSq(vx, vy))

---------------------------------------------------------------------------
(* Exploration bounds and input sets                                       *)

\* the match specification (Spec): inbound events explored per session
MaxInputs == 3
\* the lobby specification (SpecLobby): inbound events explored per session
MaxLobbyInputs == 4
\* the rally specification (SpecRally): paddle and ability commands explored
\* per session
MaxRallyInputs == 2
\* the rally specification: goals explored per session
MaxRallyGoals == 1
\* a goal is explored only while both scores stay within ScoreCap
ScoreCap == 4
\* paddle hits explored per session
MaxHits == 2
\* physics ticks explored while a time distortion is in force
MaxSlowTicks == 3
\* the pre-match countdown value is explored down to -MaxOverrun
MaxOverrun == 1

\* amounts carried by set_bet
BetAmounts == {0, 5, 10}
\* amounts carried by set_bet in the match specification
MatchBetAmounts == {5}
\* y values carried by paddle_move (any number is accepted by the server)
PaddleInputs == {425 * PIXEL}
\* values returned by Date.now(), in ms since the session was created
ClockTimes == {0, 4000}
\* constructor: INITIAL_BALL_SPEED * (Math.random() * 2 - 1)
InitVelocityY == {0, -(INITIAL_BALL_SPEED \div 2)}
\* constructor and resetBall: Math.random() > 0.5 ? 1 : -1
Directions == {1, -1}
\* resetBall: <<cos(angle), sin(angle)>> in thousandths, here for the angle
\* +45 degrees of the range [-45, 45]
ResetAngles == {<<707, 707>>}

---------------------------------------------------------------------------
VARIABLES
  gameState,              \* this.gameState (ball, paddles, scores, gameStarted)
  prevBallX, prevBallY,
  countdown,
  gameLoop, countdownInterval, bettingTimer, scoreCountdownInterval,
  gameLoopLive, countdownLive, scoreCountdownLive,   \* live timers per kind
  player1Bet, player2Bet, player1Ready, player2Ready, finalBetAmount,
  timeFreezeActive, timeFreezeEndTime, ballSpeedMultiplier,
  player1UsedUltimates, player2UsedUltimates, powerHitPlayer,
  scoreCountdown, isPaused,
  activeSessions,         \* index.ts: the connections mapped to a session
  matchmakingQueue,       \* index.ts: the connections waiting, oldest first
  joinPending,            \* handleJoinQueue calls suspended at an await, per connection
  sessions,               \* the sessions constructed so far: <<player1, player2>>
  lobbyStartPending,      \* index.ts: the delayed startBettingLobby call
  wsOpen,                 \* ws.readyState === OPEN, per connection
  now,                    \* last value returned by Date.now()
  out,                    \* notifications sent by the last step, in order
  hist,                   \* observations over the whole run (see HistInit)
  inputs                  \* inbound events handled so far

physVars == <<gameState, prevBallX, prevBallY>>
timerVars == <<gameLoop, countdownInterval, bettingTimer, scoreCountdownInterval,
               gameLoopLive, countdownLive, scoreCountdownLive>>
wagerVars == <<player1Bet, player2Bet, player1Ready, player2Ready, finalBetAmount>>
abilityVars == <<timeFreezeActive, timeFreezeEndTime, ballSpeedMultiplier,
                 player1UsedUltimates, player2UsedUltimates, powerHitPlayer>>
pauseVars == <<scoreCountdown, isPaused>>
connVars == <<activeSessions, lobbyStartPending, wsOpen>>
mmVars == <<matchmakingQueue, joinPending, sessions>>
vars == <<physVars, countdown, timerVars, wagerVars, abilityVars, pauseVars,
          connVars, mmVars, now, out, hist, inputs>>

---------------------------------------------------------------------------
(* Outbound notifications                                                  *)

Msg(to, type, n) ==
  [to |-> to, type |-> type, n |-> n, side |-> "", ability |-> "",
   left |-> 0, right |-> 0]
\* game_over: winner, finalScore {left, right}, betAmount
GameOverMsg(to, winner, left, right, betAmount) ==
  [to |-> to, type |-> "game_over", n |-> betAmount, side |-> winner,
   ability |-> "", left |-> left, right |-> right]
\* ultimate_activated: side, abilityType
UltimateMsg(to, side, abilityType) ==
  [to |-> to, type |-> "ultimate_activated", n |-> 0, side |-> side,
   ability |-> abilityType, left |-> 0, right |-> 0]

\* sendToPlayer: the message is written only to a connection that is open
sendToPlayer(open, m) == IF open[m.to] THEN <<m>> ELSE <<>>
\* a broadcast that gives up when the first delivery is impossible
sendToBothUntilFailure(open, type, n) ==
  IF open[1]
  THEN sendToPlayer(open, Msg(1, type, n)) \o sendToPlayer(open, Msg(2, type, n))
  ELSE <<>>

\* the same notification to player 1, then to player 2
sendToBoth(open, type, n) ==
  sendToPlayer(open, Msg(1, type, n)) \o sendToPlayer(open, Msg(2, type, n))

Sent(type) == {i \in 1..Len(out) : out[i].type = type}
SentTo(p, type) == {i \in 1..Len(out) : out[i].type = type /\ out[i].to = p}
---------------------------------------------------------------------------
(* Physics: pure functions of the gameState record                         *)

\* speedUpBall, without the paddle shrink
RampVelocity(gs) ==
  LET vx == gs.ballVelocityX
      vy == gs.ballVelocityY
      speedMultiplierTenths == 10 + BALL_SPEED_INCREMENT_TENTHS
      newVelX == Div(vx * speedMultiplierTenths, 10)
      newVelY == Div(vy * speedMultiplierTenths, 10)
      \* Math.cos(Math.atan2(vy, vx)) * MAX = vx / |v| * MAX
      hyp == IsqrtUp(SpeedSq(vx, vy))
      capX == Div(vx * MAX_BALL_SPEED, hyp)
      capY == Div(vy * MAX_BALL_SPEED, hyp)
  IN IF SpeedSq(vx, vy) < MAX_BALL_SPEED * MAX_BALL_SPEED
     THEN IF SpeedSq(newVelX, newVelY) <= MAX_BALL_SPEED * MAX_BALL_SPEED
          THEN [gs EXCEPT !.ballVelocityX = newVelX, !.ballVelocityY = newVelY]
          ELSE [gs EXCEPT !.ballVelocityX = capX, !.ballVelocityY = capY]
     ELSE gs

\* one paddle's height after one speedUpBall
ShrinkPaddle(height) ==
  IF IsNumber(MIN_PADDLE_HEIGHT) /\ height > MIN_PADDLE_HEIGHT
  THEN JsMax(MIN_PADDLE_HEIGHT,
             IF IsNumber(PADDLE_SHRINK_PER_HIT)
             THEN height - PADDLE_SHRINK_PER_HIT
             ELSE NaN)
  ELSE height

speedUpBall(gs) ==
  LET r == RampVelocity(gs)
  IN [r EXCEPT !.paddle1Height = ShrinkPaddle(gs.paddle1Height),
               !.paddle2Height = ShrinkPaddle(gs.paddle2Height)]

RECURSIVE speedUpBallTimes(_, _)
speedUpBallTimes(gs, k) ==
  IF k = 0 THEN gs ELSE speedUpBallTimes(speedUpBall(gs), k - 1)

\* |hitPosition| <= 0.15, hitPosition = (y / den - paddleCenter) /
\* (PADDLE_HEIGHT / 2), for the point of impact y / den: the outcomes it can
\* have
isPerfectHit(y, den, paddleCenter) ==
  DoubleLeq(Abs(y - paddleCenter * den), PERFECT_HIT_ZONE * den)

\* number of speedUpBall calls made by one hit response
RampSteps(perfect, armed) ==
  1 + (IF perfect THEN 1 ELSE 0)
    + (IF armed THEN POWER_HIT_STEPS ELSE 0)

\* a response that leaves the horizontal velocity as it was
ReflectNot(side, vx) == vx

\* Math.abs(ballVelocityX) for the left paddle, -Math.abs for the right
Reflect(side, vx) == IF side = 1 THEN Abs(vx) ELSE -Abs(vx)

\* The response to a hit on paddle `side`; offset is crossY (swept) or ballY
\* (emergency) minus the paddle center, currentSpeed the speed computed
\* before the paddle tests, perfect the outcome of isPerfectHit.  Yields the
\* new gameState and powerHitPlayer, with the number of speedUpBall calls
\* made and the offset of the hit.
HitResponse(gs, ph, side, offset, perfect, currentSpeed) ==
  LET fast == currentSpeed >= FAST_SPEED
      reflX == Reflect(side, gs.ballVelocityX)
      outX == IF side = 1
              THEN paddle1Right + BALL_SIZE \div 2 + HIT_SAFETY_MARGIN
              ELSE paddle2Left - BALL_SIZE \div 2 - HIT_SAFETY_MARGIN
      spinStrength == IF fast THEN 2 ELSE 3
      \* hitPosition * spinStrength, as a velocity
      spin == Div(offset * spinStrength * SCALE, PADDLE_HEIGHT \div 2)
      MAX_Y_VELOCITY == IF fast THEN 4 * SCALE ELSE 6 * SCALE
      spunY == Max(-MAX_Y_VELOCITY, Min(MAX_Y_VELOCITY, gs.ballVelocityY + spin))
      MIN_X_VELOCITY == IF fast THEN Div(currentSpeed * 3, 4)
                                ELSE Div(currentSpeed, 2)
      flooredX == IF Abs(reflX) < MIN_X_VELOCITY
                  THEN Sign(reflX) * MIN_X_VELOCITY ELSE reflX
      bounced == [gs EXCEPT !.ballVelocityX = flooredX, !.ballVelocityY = spunY,
                            !.ballX = outX]
  IN [gs |-> speedUpBallTimes(bounced, RampSteps(perfect, ph = side)),
      ph |-> IF ph = side THEN 0 ELSE ph,
      ramps |-> RampSteps(perfect, ph = side),
      offset |-> offset]

\* COLLISION_PADDING = BASE_PADDING + max(0, (currentSpeed - 6) * 8), as a
\* length.  With s = floor(sqrt(vx^2 + vy^2)) and k = 8 * PIXEL / SCALE,
\* floor(k * sqrt(vx^2 + vy^2)) is k * s + r for the largest r < k with
\* (k * s + r)^2 <= k^2 * (vx^2 + vy^2).  size is that length rounded down;
\* exact tells that nothing was rounded off (the root is an integer, or the
\* speed is below 6 and max gives 0).
CollisionPadding(vx, vy) ==
  LET sq == SpeedSq(vx, vy)
      s == Isqrt(sq)
      k == SPEED_SCALING * (PIXEL \div SCALE)
      r == CHOOSE i \in 0..(k - 1) :
             /\ 2 * k * s * i + i * i <= k * k * (sq - s * s)
             /\ 2 * k * s * (i + 1) + (i + 1) * (i + 1) > k * k * (sq - s * s)
      scaled == k * s + r
      base == k * INITIAL_BALL_SPEED
  IN [size |-> BASE_PADDING + Max(0, scaled - base),
      exact |-> s * s = sq \/ scaled < base]

\* crossY of the swept test: prevBallY + vy * t, t = (edge - lead) / vx.
\* The exact value is num / den (den > 0); y is that value as a length,
\* rounded toward zero, by which the hit response places the ball's spin.
CrossY(pY, vy, edge, lead, vx) ==
  [y |-> pY + Div(vy * (edge - lead), vx),
   num |-> IF vy = 0 THEN pY ELSE pY * Abs(vx) + Sign(vx) * vy * (edge - lead),
   den |-> IF vy = 0 THEN 1 ELSE Abs(vx)]

\* a vertical-extent test with the comparisons inverted
OutsidePaddleY(y, den, paddleY) ==
  {\/ y <= ((paddleY - PADDLE_HEIGHT \div 2) - BALL_SIZE \div 2) * den
   \/ y >= ((paddleY + PADDLE_HEIGHT \div 2) + BALL_SIZE \div 2) * den}

\* the vertical-extent test shared by the swept and the emergency check, for
\* the ordinate y / den: minY <= y / den && y / den <= maxY, the outcomes
\* it can have (no comparison holds for a paddle center that is NaN)
WithinPaddleY(y, den, paddleY) ==
  IF IsNumber(paddleY)
  THEN {above /\ below :
          above \in DoubleLeq(((paddleY - PADDLE_HEIGHT \div 2)
                                 - BALL_SIZE \div 2) * den, y),
          below \in DoubleLeq(y, ((paddleY + PADDLE_HEIGHT \div 2)
                                    + BALL_SIZE \div 2) * den)}
  ELSE {FALSE}

\* an overlap check that takes a ball within the safety margin of the paddle
\* face for a ball in the paddle, whichever way the ball moves and whatever
\* the swept test has found
EmergencyLeftTouching(leftPaddleHit, gs) ==
  {inside /\ reached /\ within :
     inside \in DoubleLeq(gs.ballX - BALL_SIZE \div 2,
                          paddle1Right + HIT_SAFETY_MARGIN),
     reached \in DoubleLeq(paddle1Left, gs.ballX + BALL_SIZE \div 2),
     within \in WithinPaddleY(gs.ballY, 1, gs.paddle1Y)}

\* the condition of the emergency check of the left paddle, evaluated after
\* the swept test and its response: the outcomes it can have
EmergencyLeft(leftPaddleHit, gs) ==
  IF ~leftPaddleHit /\ gs.ballVelocityX < 0
  THEN {inside /\ reached /\ within :
          inside \in DoubleLeq(gs.ballX - BALL_SIZE \div 2, paddle1Right),
          reached \in DoubleLeq(paddle1Left, gs.ballX + BALL_SIZE \div 2),
          within \in WithinPaddleY(gs.ballY, 1, gs.paddle1Y)}
  ELSE {FALSE}

\* the condition of the emergency check of the right paddle
EmergencyRight(rightPaddleHit, gs) ==
  IF ~rightPaddleHit /\ gs.ballVelocityX > 0
  THEN {reached /\ inside /\ within :
          reached \in DoubleLeq(paddle2Left, gs.ballX + BALL_SIZE \div 2),
          inside \in DoubleLeq(gs.ballX - BALL_SIZE \div 2, paddle2Right),
          within \in WithinPaddleY(gs.ballY, 1, gs.paddle2Y)}
  ELSE {FALSE}

\* the emergency check of the left paddle and its response, applied to the
\* state s left by the swept test: the states it can leave
EmergencyLeftStep(s, leftPaddleHit, currentSpeed) ==
  UNION {IF emergency
         THEN {HitResponse(s.gs, s.ph, 1, s.gs.ballY - s.gs.paddle1Y,
                           perfect, currentSpeed)
                 @@ [hit |-> s.hit \o <<"leftEmergency">>] :
                 perfect \in isPerfectHit(s.gs.ballY, 1, s.gs.paddle1Y)}
         ELSE {s} :
         emergency \in EmergencyLeft(leftPaddleHit, s.gs)}

\* the emergency check of the right paddle and its response
EmergencyRightStep(s, rightPaddleHit, currentSpeed) ==
  UNION {IF emergency
         THEN {HitResponse(s.gs, s.ph, 2, s.gs.ballY - s.gs.paddle2Y,
                           perfect, currentSpeed)
                 @@ [hit |-> s.hit \o <<"rightEmergency">>] :
                 perfect \in isPerfectHit(s.gs.ballY, 1, s.gs.paddle2Y)}
         ELSE {s} :
         emergency \in EmergencyRight(rightPaddleHit, s.gs)}

\* Swept test and emergency check of the left paddle: the states they can
\* leave.  st is a record [gs, ph, hit]; hit accumulates the kinds of hit
\* registered in this tick.  pX, pY is the ball's previous position, padding
\* is COLLISION_PADDING.  A zone entry on the very edge of the padded zone is
\* decided by rounding unless the padding was rounded down, in which case the
\* ball is inside the real zone.
LeftPaddle(st, pX, pY, currentSpeed, padding) ==
  LET gs == st.gs
      lead == pX - BALL_SIZE \div 2
      newLead == gs.ballX - BALL_SIZE \div 2
      crossed ==
        IF gs.ballVelocityX < 0
        THEN {~behind /\ entered :
                behind \in DoubleLeq(lead, paddle1Right),
                entered \in IF padding.exact
                            THEN DoubleLeq(newLead, paddle1Right + padding.size)
                            ELSE {newLead <= paddle1Right + padding.size}}
        ELSE {FALSE}
      crossY == CrossY(pY, gs.ballVelocityY, paddle1Right, lead, gs.ballVelocityX)
      leftPaddleHit ==
        IF TRUE \in crossed
        THEN {c /\ within :
                c \in crossed,
                within \in WithinPaddleY(crossY.num, crossY.den, gs.paddle1Y)}
        ELSE {FALSE}
      Swept(hit) ==
        IF hit
        THEN {HitResponse(gs, st.ph, 1, crossY.y - gs.paddle1Y, perfect,
                          currentSpeed)
                @@ [hit |-> st.hit \o <<"leftSwept">>] :
                perfect \in isPerfectHit(crossY.num, crossY.den, gs.paddle1Y)}
        ELSE {st}
  IN UNION {UNION {EmergencyLeftStep(s, hit, currentSpeed) : s \in Swept(hit)} :
              hit \in leftPaddleHit}

\* Swept test and emergency check of the right paddle.
RightPaddle(st, pX, pY, currentSpeed, padding) ==
  LET gs == st.gs
      lead == pX + BALL_SIZE \div 2
      newLead == gs.ballX + BALL_SIZE \div 2
      crossed ==
        IF gs.ballVelocityX > 0
        THEN {~behind /\ entered :
                behind \in DoubleLeq(paddle2Left, lead),
                entered \in IF padding.exact
                            THEN DoubleLeq(paddle2Left - padding.size, newLead)
                            ELSE {paddle2Left - padding.size <= newLead}}
        ELSE {FALSE}
      crossY == CrossY(pY, gs.ballVelocityY, paddle2Left, lead, gs.ballVelocityX)
      rightPaddleHit ==
        IF TRUE \in crossed
        THEN {c /\ within :
                c \in crossed,
                within \in WithinPaddleY(crossY.num, crossY.den, gs.paddle2Y)}
        ELSE {FALSE}
      Swept(hit) ==
        IF hit
        THEN {HitResponse(gs, st.ph, 2, crossY.y - gs.paddle2Y, perfect,
                          currentSpeed)
                @@ [hit |-> st.hit \o <<"rightSwept">>] :
                perfect \in isPerfectHit(crossY.num, crossY.den, gs.paddle2Y)}
        ELSE {st}
  IN UNION {UNION {EmergencyRightStep(s, hit, currentSpeed) : s \in Swept(hit)} :
              hit \in rightPaddleHit}

\* a wall bounce that turns the ball around but leaves it beyond the edge
MoveBallUnclamped(gs, multiplier) ==
  LET x == gs.ballX + gs.ballVelocityX * multiplier
      y == gs.ballY + gs.ballVelocityY * multiplier
  IN {IF y <= BALL_SIZE \div 2 \/ y >= CANVAS_HEIGHT - BALL_SIZE \div 2
      THEN [gs EXCEPT !.ballX = x, !.ballY = y,
                      !.ballVelocityY = -gs.ballVelocityY]
      ELSE [gs EXCEPT !.ballX = x, !.ballY = y]}

\* Integration and wall collision: the states they can leave.  A velocity
\* in 1/SCALE pixel per tick times a multiplier in tenths is a length in
\* 1/PIXEL pixel.  A ball that lands on the very edge of the field bounces
\* or not as rounding decides.
MoveBall(gs, multiplier) ==
  LET x == gs.ballX + gs.ballVelocityX * multiplier
      y == gs.ballY + gs.ballVelocityY * multiplier
      lo == BALL_SIZE \div 2
      hi == CANVAS_HEIGHT - BALL_SIZE \div 2
  IN {IF top \/ bottom
      THEN [gs EXCEPT !.ballX = x, !.ballY = Max(lo, Min(hi, y)),
                      !.ballVelocityY = -gs.ballVelocityY]
      ELSE [gs EXCEPT !.ballX = x, !.ballY = y] :
      top \in DoubleLeq(y, lo), bottom \in DoubleLeq(hi, y)}

\* updatePhysics from the integration up to, not including, the scoring:
\* the records [gs, ph, hit] it can yield
MoveAndCollide(gs, ph, multiplier) ==
  UNION {UNION {RightPaddle(st1, gs.ballX, gs.ballY, m.currentSpeed, m.padding) :
                  st1 \in LeftPaddle(m.st0, gs.ballX, gs.ballY, m.currentSpeed,
                                     m.padding)} :
           m \in {[st0 |-> [gs |-> moved, ph |-> ph, hit |-> <<>>, ramps |-> 0,
                            offset |-> 0],
                   currentSpeed |-> Speed(moved.ballVelocityX, moved.ballVelocityY),
                   padding |-> CollisionPadding(moved.ballVelocityX,
                                                moved.ballVelocityY)] :
                    moved \in MoveBall(gs, multiplier)}}
---------------------------------------------------------------------------
(* Initial state: tryMatchmaking has paired two open connections, built    *)
(* the session (constructor), mapped both connections to it and scheduled  *)
(* the delayed startBettingLobby.                                          *)

HistInit ==
  [slowTicks |-> 0,      \* physics ticks run under a time distortion
   starts |-> 0,         \* calls of start()
   hits |-> 0,            \* paddle hit responses applied
   gameOvers |-> 0,       \* calls of endGame()
   resolutions |-> 0,     \* times the wager was resolved and announced
   firstFinal |-> -1,     \* the amount of the first resolution
   announced |-> -1,      \* the amount of the last final_bet_amount sent
   lastHit |-> <<>>,      \* the hits registered by the last physics tick
   lastRamps |-> 0,       \* speedUpBall calls made by the last physics tick
   lastOffset |-> 0,      \* hit height minus paddle center in that tick
   preHitSq |-> 0]        \* squared ball speed going into the last hit

Init ==
  /\ \E dir \in Directions, vy \in InitVelocityY :
       gameState = [ballX |-> CANVAS_WIDTH \div 2,
                    ballY |-> CANVAS_HEIGHT \div 2,
                    ballVelocityX |-> INITIAL_BALL_SPEED * dir,
                    ballVelocityY |-> vy,
                    paddle1Y |-> CANVAS_HEIGHT \div 2,
                    paddle2Y |-> CANVAS_HEIGHT \div 2,
                    paddle1Height |-> PADDLE_HEIGHT,
                    paddle2Height |-> PADDLE_HEIGHT,
                    score1 |-> 0,
                    score2 |-> 0,
                    gameStarted |-> FALSE]
  /\ prevBallX = 0 /\ prevBallY = 0
  /\ countdown = COUNTDOWN_DURATION
  /\ gameLoop = NULL /\ countdownInterval = NULL
  /\ bettingTimer = NULL /\ scoreCountdownInterval = NULL
  /\ gameLoopLive = 0 /\ countdownLive = 0 /\ scoreCountdownLive = 0
  /\ player1Bet = 0 /\ player2Bet = 0
  /\ player1Ready = FALSE /\ player2Ready = FALSE
  /\ finalBetAmount = 0
  /\ timeFreezeActive = FALSE /\ timeFreezeEndTime = 0
  /\ ballSpeedMultiplier = NORMAL_MULTIPLIER
  /\ player1UsedUltimates = {} /\ player2UsedUltimates = {}
  /\ powerHitPlayer = 0
  /\ scoreCountdown = SCORE_COUNTDOWN_START /\ isPaused = FALSE
  /\ activeSessions = Players
  /\ lobbyStartPending = TRUE
  /\ wsOpen = [c \in Clients |-> TRUE]
  /\ matchmakingQueue = <<>>
  /\ joinPending = [c \in Clients |-> 0]
  /\ sessions = <<<<1, 2>>>>
  /\ now = 0
  /\ out = <<>>
  /\ hist = HistInit
  /\ inputs = 0

---------------------------------------------------------------------------
(* Wager negotiation                                                       *)

\* a resolution that takes the larger of two non-zero bets
ResolveBetLarger(bet1, bet2) ==
  IF bet1 = 0 \/ bet2 = 0 THEN 0 ELSE Max(bet1, bet2)

\* RULE: if either player bets 0 the final bet is 0, else the smaller bet
ResolveBet(bet1, bet2) ==
  IF bet1 = 0 \/ bet2 = 0 THEN 0 ELSE JsMin(bet1, bet2)

\* hist after the wager was resolved to `amount` and start() was called
HistResolved(amount) ==
  [hist EXCEPT !.starts = @ + 1, !.resolutions = @ + 1,
               !.firstFinal = IF hist.resolutions = 0 THEN amount ELSE @,
               !.announced = IF \E p \in Players : wsOpen[p] THEN amount ELSE @]

\* index.ts tryMatchmaking: setTimeout(() => session.startBettingLobby(), 1000)
\* startBettingLobby: this.bettingTimer = setTimeout(..., 30000)
startBettingLobby ==
  /\ lobbyStartPending
  /\ UNCHANGED mmVars
  /\ lobbyStartPending' = FALSE
  /\ bettingTimer' = LIVE
  /\ out' = <<>>
  /\ UNCHANGED <<physVars, countdown, gameLoop, countdownInterval,
                 scoreCountdownInterval, gameLoopLive, countdownLive,
                 scoreCountdownLive, wagerVars, abilityVars, pauseVars,
                 activeSessions, wsOpen, now, hist>>

\* a test that also takes the lobby with one ready player for an idle one
NobodyReadyOrOne == ~(player1Ready /\ player2Ready)

\* !this.player1Ready && !this.player2Ready
NobodyReady == ~player1Ready /\ ~player2Ready

\* the callback of the betting timer
BettingTimerExpired ==
  /\ bettingTimer = LIVE
  /\ UNCHANGED mmVars
  /\ IF NobodyReady
     THEN \* betting_timeout to both, then cleanup()
          /\ out' = sendToBoth(wsOpen, "betting_timeout", 0)
          /\ gameLoopLive' = IF gameLoop = LIVE THEN gameLoopLive - 1 ELSE gameLoopLive
          /\ gameLoop' = NULL
          /\ countdownLive' = IF countdownInterval = LIVE THEN countdownLive - 1
                                                        ELSE countdownLive
          /\ countdownInterval' = NULL
          /\ bettingTimer' = NULL
          /\ UNCHANGED <<finalBetAmount, hist>>
     ELSE \* resolve the wager, announce it, start()
          /\ finalBetAmount' = ResolveBet(player1Bet, player2Bet)
          /\ out' = sendToBoth(wsOpen, "final_bet_amount", finalBetAmount')
          /\ bettingTimer' = DEAD
          /\ countdownInterval' = LIVE
          /\ countdownLive' = countdownLive + 1
          /\ hist' = HistResolved(finalBetAmount')
          /\ UNCHANGED <<gameLoop, gameLoopLive>>
  /\ UNCHANGED <<physVars, countdown, scoreCountdownInterval, scoreCountdownLive,
                 player1Bet, player2Bet, player1Ready, player2Ready,
                 abilityVars, pauseVars, connVars, now>>

\* index.ts handleSetBet + GameSession.handleSetBet
handleSetBet(p, amount) ==
  /\ p \in activeSessions
  /\ UNCHANGED mmVars
  /\ IF p = 1 THEN player1Bet' = amount /\ UNCHANGED player2Bet
              ELSE player2Bet' = amount /\ UNCHANGED player1Bet
  /\ out' = sendToPlayer(wsOpen, Msg(Other(p), "opponent_bet_set", amount))
  /\ UNCHANGED <<physVars, countdown, timerVars, player1Ready, player2Ready,
                 finalBetAmount, abilityVars, pauseVars, connVars, now, hist>>

\* index.ts handleReadyToStart + GameSession.handleReadyToStart
handleReadyToStart(p) ==
  /\ p \in activeSessions
  /\ UNCHANGED mmVars
  /\ player1Ready' = (player1Ready \/ p = 1)
  /\ player2Ready' = (player2Ready \/ p = 2)
  /\ IF player1Ready' /\ player2Ready'
     THEN /\ finalBetAmount' = ResolveBet(player1Bet, player2Bet)
          /\ out' = sendToPlayer(wsOpen, Msg(Other(p), "opponent_ready", 0))
                      \o sendToBoth(wsOpen, "final_bet_amount", finalBetAmount')
          \* clearTimeout(bettingTimer) if set, then start()
          /\ bettingTimer' = NULL
          /\ countdownInterval' = LIVE
          /\ countdownLive' = countdownLive + 1
          /\ hist' = HistResolved(finalBetAmount')
     ELSE /\ out' = sendToPlayer(wsOpen, Msg(Other(p), "opponent_ready", 0))
          /\ UNCHANGED <<finalBetAmount, bettingTimer, countdownInterval,
                         countdownLive, hist>>
  /\ UNCHANGED <<physVars, countdown, gameLoop, scoreCountdownInterval,
                 gameLoopLive, scoreCountdownLive, player1Bet, player2Bet,
                 abilityVars, pauseVars, connVars, now>>
---------------------------------------------------------------------------
(* Abilities and paddle input                                              *)

UsedUltimates(p) == IF p = 1 THEN player1UsedUltimates ELSE player2UsedUltimates

\* a check that lets every use through
AlreadyUsedNever(p, abilityType) == FALSE

\* usedSet.has(abilityType)
AlreadyUsed(p, abilityType) == abilityType \in UsedUltimates(p)

\* a reposition that sends the paddle back to the middle of the field
DashTargetCenter(gs) == CANVAS_HEIGHT \div 2

\* activatePaddleDash: the new paddle center, this.gameState.ballY
DashTarget(gs) == gs.ballY

\* index.ts handleUseUltimate + GameSession.handleUseUltimate
handleUseUltimate(p, abilityType) ==
  /\ p \in activeSessions
  /\ UNCHANGED mmVars
  /\ IF AlreadyUsed(p, abilityType)
     THEN /\ out' = sendToPlayer(wsOpen, Msg(p, "error", 0))
          /\ UNCHANGED <<gameState, abilityVars, now>>
     ELSE /\ player1UsedUltimates' =
               IF p = 1 THEN player1UsedUltimates \cup {abilityType}
                        ELSE player1UsedUltimates
          /\ player2UsedUltimates' =
               IF p = 2 THEN player2UsedUltimates \cup {abilityType}
                        ELSE player2UsedUltimates
          /\ out' = sendToPlayer(wsOpen, UltimateMsg(1, SideOf(p), abilityType))
                      \o sendToPlayer(wsOpen, UltimateMsg(2, SideOf(p), abilityType))
          /\ CASE abilityType = "time_freeze" ->
                    \* activateTimeFreeze: Date.now() + 4000
                    \E t \in ClockTimes :
                      /\ t >= now
                      /\ now' = t
                      /\ timeFreezeActive' = TRUE
                      /\ ballSpeedMultiplier' = SLOW_MULTIPLIER
                      /\ timeFreezeEndTime' = t + TIME_FREEZE_MS
                      /\ UNCHANGED <<gameState, powerHitPlayer>>
               [] abilityType = "paddle_dash" ->
                    \* activatePaddleDash: paddle center := ballY
                    /\ gameState' =
                         IF p = 1
                         THEN [gameState EXCEPT !.paddle1Y = DashTarget(gameState)]
                         ELSE [gameState EXCEPT !.paddle2Y = DashTarget(gameState)]
                    /\ UNCHANGED <<timeFreezeActive, timeFreezeEndTime,
                                   ballSpeedMultiplier, powerHitPlayer, now>>
               [] abilityType = "power_hit" ->
                    \* activatePowerHit
                    /\ powerHitPlayer' = p
                    /\ UNCHANGED <<gameState, timeFreezeActive, timeFreezeEndTime,
                                   ballSpeedMultiplier, now>>
               [] OTHER ->
                    \* no case of the switch matches
                    UNCHANGED <<gameState, timeFreezeActive, timeFreezeEndTime,
                                ballSpeedMultiplier, powerHitPlayer, now>>
  /\ UNCHANGED <<prevBallX, prevBallY, countdown, timerVars, wagerVars,
                 pauseVars, connVars, hist>>

\* the clamp of updatePaddlePosition
ClampPaddleY(y) ==
  JsMax(PADDLE_HEIGHT \div 2, JsMin(CANVAS_HEIGHT - PADDLE_HEIGHT \div 2, y))

\* index.ts handlePaddleMove + GameSession.updatePaddlePosition
updatePaddlePosition(p, y) ==
  /\ p \in activeSessions
  /\ UNCHANGED mmVars
  /\ gameState' = IF p = 1 THEN [gameState EXCEPT !.paddle1Y = ClampPaddleY(y)]
                           ELSE [gameState EXCEPT !.paddle2Y = ClampPaddleY(y)]
  /\ out' = <<>>
  /\ UNCHANGED <<prevBallX, prevBallY, countdown, timerVars, wagerVars,
                 abilityVars, pauseVars, connVars, now, hist>>

---------------------------------------------------------------------------
(* Pre-match countdown                                                     *)

\* a countdown that never reaches its end
CountdownDoneNever(c) == FALSE

\* a test that starts the game one count early
CountdownDoneEarly(c) == c <= 1

\* if (this.countdown <= 0)
CountdownDone(c) == c <= 0

\* the callback of a countdown interval created by start(); on reaching 0
\* it calls startGame()
CountdownTick ==
  /\ countdownLive > 0
  /\ UNCHANGED mmVars
  /\ countdown' = countdown - 1
  /\ out' = sendToBoth(wsOpen, "countdown", countdown')
  /\ IF CountdownDone(countdown')
     THEN \* startGame
          /\ countdownLive' = IF countdownInterval = LIVE THEN countdownLive - 1
                                                        ELSE countdownLive
          /\ countdownInterval' = NULL
          /\ gameState' = [gameState EXCEPT !.gameStarted = TRUE]
          /\ gameLoop' = LIVE
          /\ gameLoopLive' = gameLoopLive + 1
     ELSE UNCHANGED <<countdownLive, countdownInterval, gameState, gameLoop,
                      gameLoopLive>>
  /\ UNCHANGED <<prevBallX, prevBallY, bettingTimer, scoreCountdownInterval,
                 scoreCountdownLive, wagerVars, abilityVars, pauseVars,
                 connVars, now, hist>>
---------------------------------------------------------------------------
(* Physics tick, scoring, score pause, game over                           *)

\* a threshold test that never ends the match
ReachedWinningScoreNever(score) == FALSE

\* score >= WINNING_SCORE, tested right after a goal is counted
ReachedWinningScore(score) == score >= WINNING_SCORE

\* a winner taken from the side that conceded
WinnerConceding(goalLeft) == IF goalLeft THEN "left" ELSE "right"

\* endGame('right') after a goal on the left edge, endGame('left') otherwise
Winner(goalLeft) == IF goalLeft THEN "right" ELSE "left"

\* hist after a physics tick that registered the hits `hit`
HistTick(hit, preSq, slow, over) ==
  [hist EXCEPT !.hits = @ + Len(hit),
               !.lastHit = hit,
               !.preHitSq = IF hit # <<>> THEN preSq ELSE @,
               !.slowTicks = IF slow THEN @ + 1 ELSE @,
               !.gameOvers = IF over THEN @ + 1 ELSE @]

\* an expiry test that misses the tick falling exactly on the expiry time
FreezeExpiredLate(t, endTime) == t > endTime

\* Date.now() >= this.timeFreezeEndTime
FreezeExpired(t, endTime) == t >= endTime

\* a guard that forgets the score pause
PhysicsSuspendedBeforeStart(started, paused) == ~started

\* updatePhysics: if (!gameStarted) return; if (isPaused) return;
PhysicsSuspended(started, paused) == ~started \/ paused

\* the callback of a game-loop interval: updatePhysics(); broadcastGameState()
Tick ==
  /\ gameLoopLive > 0
  /\ UNCHANGED mmVars
  /\ IF PhysicsSuspended(gameState.gameStarted, isPaused)
     THEN \* updatePhysics returns at once; the state is still broadcast
          /\ out' = sendToBoth(wsOpen, "game_state", 0)
          /\ hist' = [hist EXCEPT !.lastHit = <<>>, !.lastRamps = 0,
                                   !.lastOffset = 0]
          /\ UNCHANGED <<physVars, gameLoop, scoreCountdownInterval, gameLoopLive,
                         scoreCountdownLive, timeFreezeActive, ballSpeedMultiplier,
                         powerHitPlayer, pauseVars, now>>
     ELSE \E t \in (IF timeFreezeActive THEN {c \in ClockTimes : c >= now}
                                        ELSE {now}) :
          \* st: an outcome of the integration and the paddle tests;
          \* goalLeft, pastRight: outcomes of the two scoring comparisons
          \E st \in MoveAndCollide(gameState, powerHitPlayer,
                                   IF timeFreezeActive
                                        /\ FreezeExpired(t, timeFreezeEndTime)
                                   THEN NORMAL_MULTIPLIER
                                   ELSE ballSpeedMultiplier) :
          \E goalLeft \in DoubleLeq(st.gs.ballX, 0),
             pastRight \in DoubleLeq(CANVAS_WIDTH, st.gs.ballX) :
          LET expired == timeFreezeActive /\ FreezeExpired(t, timeFreezeEndTime)
              multiplier == IF expired THEN NORMAL_MULTIPLIER ELSE ballSpeedMultiplier
              goalRight == ~goalLeft /\ pastRight
              scored == [st.gs EXCEPT
                           !.score2 = IF goalLeft THEN @ + 1 ELSE @,
                           !.score1 = IF goalRight THEN @ + 1 ELSE @]
              over == \/ goalLeft /\ ReachedWinningScore(scored.score2)
                      \/ goalRight /\ ReachedWinningScore(scored.score1)
              pause == (goalLeft \/ goalRight) /\ ~over
          IN /\ now' = t
             /\ timeFreezeActive' = (timeFreezeActive /\ ~expired)
             /\ ballSpeedMultiplier' = multiplier
             /\ prevBallX' = gameState.ballX
             /\ prevBallY' = gameState.ballY
             /\ gameState' = scored
             /\ powerHitPlayer' = st.ph
             /\ hist' = [HistTick(st.hit,
                                  SpeedSq(gameState.ballVelocityX,
                                          gameState.ballVelocityY),
                                  multiplier # NORMAL_MULTIPLIER, over)
                           EXCEPT !.lastRamps = st.ramps, !.lastOffset = st.offset]
             /\ IF over
                THEN \* endGame(winner)
                     /\ gameLoopLive' = IF gameLoop = LIVE THEN gameLoopLive - 1
                                                          ELSE gameLoopLive
                     /\ gameLoop' = NULL
                     /\ out' = sendToPlayer(wsOpen,
                                  GameOverMsg(1, Winner(goalLeft),
                                              scored.score1, scored.score2,
                                              finalBetAmount))
                               \o sendToPlayer(wsOpen,
                                  GameOverMsg(2, Winner(goalLeft),
                                              scored.score1, scored.score2,
                                              finalBetAmount))
                               \o sendToBoth(wsOpen, "game_state", 0)
                     /\ UNCHANGED <<scoreCountdownInterval, scoreCountdownLive,
                                    pauseVars>>
                ELSE IF pause
                THEN \* startScoreCountdown
                     /\ isPaused' = TRUE
                     /\ scoreCountdown' = SCORE_COUNTDOWN_START
                     /\ scoreCountdownInterval' = LIVE
                     /\ scoreCountdownLive' = scoreCountdownLive + 1
                     /\ out' = sendToBoth(wsOpen, "countdown", SCORE_COUNTDOWN_START)
                                 \o sendToBoth(wsOpen, "game_state", 0)
                     /\ UNCHANGED <<gameLoop, gameLoopLive>>
                ELSE /\ out' = sendToBoth(wsOpen, "game_state", 0)
                     /\ UNCHANGED <<gameLoop, gameLoopLive, scoreCountdownInterval,
                                    scoreCountdownLive, pauseVars>>
  /\ UNCHANGED <<countdown, countdownInterval, bettingTimer, countdownLive,
                 wagerVars, timeFreezeEndTime, player1UsedUltimates,
                 player2UsedUltimates, connVars>>

\* a reset that gives the ball its new velocity where it lies
resetBallInPlace(gs, angle, direction) ==
  [gs EXCEPT !.ballVelocityX = Div(angle[1] * INITIAL_BALL_SPEED, 1000) * direction,
             !.ballVelocityY = Div(angle[2] * INITIAL_BALL_SPEED, 1000)]

\* resetBall with the random angle <<cos, sin>> (thousandths) and direction
resetBall(gs, angle, direction) ==
  [gs EXCEPT !.ballX = CANVAS_WIDTH \div 2,
             !.ballY = CANVAS_HEIGHT \div 2,
             !.ballVelocityX = Div(angle[1] * INITIAL_BALL_SPEED, 1000) * direction,
             !.ballVelocityY = Div(angle[2] * INITIAL_BALL_SPEED, 1000)]

\* the callback of the score-countdown interval
ScoreCountdownTick ==
  /\ scoreCountdownLive > 0
  /\ UNCHANGED mmVars
  /\ scoreCountdown' = scoreCountdown - 1
  /\ IF scoreCountdown' > 0
     THEN /\ out' = sendToBoth(wsOpen, "countdown", scoreCountdown')
          /\ UNCHANGED <<physVars, scoreCountdownInterval, scoreCountdownLive,
                         isPaused>>
     ELSE /\ out' = sendToBoth(wsOpen, "countdown", 0)
          /\ scoreCountdownLive' = IF scoreCountdownInterval = LIVE
                                   THEN scoreCountdownLive - 1
                                   ELSE scoreCountdownLive
          /\ scoreCountdownInterval' = NULL
          /\ \E angle \in ResetAngles, direction \in Directions :
               gameState' = resetBall(gameState, angle, direction)
          /\ prevBallX' = CANVAS_WIDTH \div 2
          /\ prevBallY' = CANVAS_HEIGHT \div 2
          /\ isPaused' = FALSE
  /\ UNCHANGED <<countdown, gameLoop, countdownInterval, bettingTimer,
                 gameLoopLive, countdownLive, wagerVars, abilityVars,
                 connVars, now, hist>>

---------------------------------------------------------------------------
(* Teardown                                                                *)

\* matchmakingQueue.findIndex(p => p.ws === ws) and splice(queueIndex, 1)
RemoveFirst(q, c) ==
  IF \E i \in DOMAIN q : q[i] = c
  THEN LET queueIndex == CHOOSE i \in DOMAIN q :
                           q[i] = c /\ \A j \in 1..(i - 1) : q[j] # c
       IN SubSeq(q, 1, queueIndex - 1) \o SubSeq(q, queueIndex + 1, Len(q))
  ELSE q

\* a teardown that leaves the session's players in the lookup
getPlayersNone == {}

\* session.getPlayers(): the connections index.ts deletes from the lookup
getPlayers == Players

\* index.ts handleDisconnect for a connection mapped to the session:
\* session.handleDisconnect(ws), unmap both players, session.cleanup()
SessionDisconnect(p) ==
  /\ gameLoopLive' = IF gameLoop = LIVE THEN gameLoopLive - 1 ELSE gameLoopLive
  /\ gameLoop' = NULL
  /\ countdownLive' = IF countdownInterval = LIVE THEN countdownLive - 1
                                                ELSE countdownLive
  /\ countdownInterval' = NULL
  /\ bettingTimer' = NULL
  /\ out' = sendToPlayer(wsOpen, Msg(Other(p), "opponent_disconnected", 0))
  /\ activeSessions' = activeSessions \ getPlayers

\* the listener of ws 'close' and of ws 'error': index.ts handleDisconnect
Disconnect(p) ==
  /\ matchmakingQueue' = RemoveFirst(matchmakingQueue, p)
  /\ UNCHANGED <<joinPending, sessions>>
  /\ UNCHANGED wsOpen
  /\ IF p \in activeSessions
     THEN SessionDisconnect(p)
     ELSE /\ out' = <<>>
          /\ UNCHANGED <<gameLoop, gameLoopLive, countdownInterval, countdownLive,
                         bettingTimer, activeSessions>>
  /\ UNCHANGED <<physVars, countdown, scoreCountdownInterval, scoreCountdownLive,
                 wagerVars, abilityVars, pauseVars, lobbyStartPending, now, hist>>

\* the 'leave' command: handleLeave calls handleDisconnect, the connection
\* stays open
handleLeave(p) ==
  /\ wsOpen[p]
  /\ matchmakingQueue' = RemoveFirst(matchmakingQueue, p)
  /\ UNCHANGED <<joinPending, sessions>>
  /\ UNCHANGED wsOpen
  /\ IF p \in activeSessions
     THEN SessionDisconnect(p)
     ELSE /\ out' = <<>>
          /\ UNCHANGED <<gameLoop, gameLoopLive, countdownInterval, countdownLive,
                         bettingTimer, activeSessions>>
  /\ UNCHANGED <<physVars, countdown, scoreCountdownInterval, scoreCountdownLive,
                 wagerVars, abilityVars, pauseVars, lobbyStartPending, now, hist>>

\* ws.readyState leaves OPEN (closing handshake under way, socket destroyed)
\* before the 'close' event is dispatched
ReadyStateLeavesOpen(p) ==
  /\ wsOpen[p]
  /\ wsOpen' = [wsOpen EXCEPT ![p] = FALSE]
  /\ out' = <<>>
  /\ UNCHANGED <<physVars, countdown, timerVars, wagerVars, abilityVars,
                 pauseVars, activeSessions, lobbyStartPending, mmVars, now, hist>>
---------------------------------------------------------------------------
(* Specifications.  Every specification runs the same handlers and timer   *)
(* callbacks; they differ in which inbound events are explored and how far *)
(* the match is followed.  A connection is lost in two steps: its socket   *)
(* leaves OPEN (ReadyStateLeavesOpen), then the server handles its 'close' *)
(* event (Disconnect), which is the inbound event.                         *)

\* no game loop is advancing the ball
Quiescent == gameLoopLive = 0 \/ isPaused

\* exploration bounds on a physics tick
TickWithin(maxGoals) ==
  /\ Tick
  /\ hist'.hits <= MaxHits
  /\ hist'.slowTicks <= MaxSlowTicks
  /\ gameState'.score1 <= ScoreCap /\ gameState'.score2 <= ScoreCap
  /\ gameState'.score1 + gameState'.score2 <= maxGoals

CountdownWithin == CountdownTick /\ countdown' >= -MaxOverrun

Counted(max) == inputs < max /\ inputs' = inputs + 1

\* Spec: a whole match between two players who negotiate a wager and then
\* watch; commands are explored in the betting lobby and once a game is over.
MatchInbound ==
  \/ \E p \in Players, amount \in MatchBetAmounts : handleSetBet(p, amount)
  \/ \E p \in Players : handleReadyToStart(p)
  \/ \E p \in Players, abilityType \in AbilityKinds :
       hist.gameOvers > 0 /\ handleUseUltimate(p, abilityType)
  \/ \E p \in Players, y \in PaddleInputs :
       hist.gameOvers > 0 /\ updatePaddlePosition(p, y)

MatchInputWindow ==
  /\ ~lobbyStartPending
  /\ hist.starts = 0 \/ hist.gameOvers > 0

Next ==
  \/ startBettingLobby /\ UNCHANGED inputs
  \/ BettingTimerExpired /\ UNCHANGED inputs
  \/ CountdownWithin /\ UNCHANGED inputs
  \/ TickWithin(2 * ScoreCap) /\ UNCHANGED inputs
  \/ ScoreCountdownTick /\ UNCHANGED inputs
  \/ Counted(MaxInputs) /\ MatchInputWindow /\ MatchInbound

Spec == Init /\ [][Next]_vars

\* SpecLobby: the wager negotiation, the pre-match countdown and teardown,
\* up to the first physics tick.
LobbyInbound ==
  \/ \E p \in Players, amount \in BetAmounts : handleSetBet(p, amount)
  \/ \E p \in Players : handleReadyToStart(p)
  \/ \E p \in Players : handleLeave(p)
  \/ \E p \in Players : ~wsOpen[p] /\ Disconnect(p)

NextLobby ==
  \/ startBettingLobby /\ UNCHANGED inputs
  \/ BettingTimerExpired /\ UNCHANGED inputs
  \/ CountdownWithin /\ UNCHANGED inputs
  \/ \E p \in Players :
       inputs < MaxLobbyInputs /\ ReadyStateLeavesOpen(p) /\ UNCHANGED inputs
  \/ Counted(MaxLobbyInputs) /\ LobbyInbound

SpecLobby == Init /\ [][NextLobby]_vars

\* SpecRally: the first goals of a match in which the players move their
\* paddles and use abilities.  Both players ready up in the lobby (the
\* betting window expires only on an idle lobby); paddle and ability
\* commands are explored once the wager is resolved and while the ball is at
\* rest (a paddle's position matters when the ball reaches it).
RallyInbound ==
  \/ \E p \in Players, abilityType \in {"paddle_dash", "power_hit"} :
       Quiescent /\ handleUseUltimate(p, abilityType)
  \/ \E p \in Players, y \in PaddleInputs :
       Quiescent /\ updatePaddlePosition(p, y)

NextRally ==
  \/ startBettingLobby /\ UNCHANGED inputs
  \/ BettingTimerExpired /\ ~(player1Ready \/ player2Ready) /\ UNCHANGED inputs
  \/ CountdownWithin /\ UNCHANGED inputs
  \/ TickWithin(MaxRallyGoals) /\ UNCHANGED inputs
  \/ ScoreCountdownTick /\ UNCHANGED inputs
  \/ \E p \in Players :
       hist.starts = 0 /\ ~lobbyStartPending /\ handleReadyToStart(p)
         /\ UNCHANGED inputs
  \/ Counted(MaxRallyInputs) /\ hist.starts > 0 /\ RallyInbound

SpecRally == Init /\ [][NextRally]_vars

\* SpecTeardown: a match up to its first goals in which either player may
\* leave or lose the connection at any moment (in the lobby, during the
\* pre-match countdown, while the ball is in play, during the score pause).
\* The commands that act on the session are explored before and after the
\* teardown.  The betting window expires only on an idle lobby.
MaxTeardownInputs == 2
MaxTeardownGoals == 1

\* commands are explored once the session is torn down and, before that,
\* as the first inbound event when the pre-match countdown begins
CommandWindow ==
  \/ activeSessions = {}
  \/ inputs = 0 /\ countdownLive > 0 /\ countdown = COUNTDOWN_DURATION

TeardownInbound ==
  \/ \E p \in Players : activeSessions # {} /\ handleLeave(p)
  \/ \E p \in Players : ~wsOpen[p] /\ Disconnect(p)
  \/ \E p \in Players : CommandWindow /\ handleSetBet(p, 5)
  \/ \E p \in Players : CommandWindow /\ handleUseUltimate(p, "power_hit")
  \/ \E p \in Players, y \in PaddleInputs :
       CommandWindow /\ updatePaddlePosition(p, y)

\* a socket leaves OPEN at any moment; the timer callbacks keep running, and
\* the other socket may leave OPEN too, until its 'close' event is handled
NextTeardown ==
  \/ startBettingLobby /\ UNCHANGED inputs
  \/ BettingTimerExpired /\ ~(player1Ready \/ player2Ready)
       /\ UNCHANGED inputs
  \/ CountdownWithin /\ UNCHANGED inputs
  \/ TickWithin(MaxTeardownGoals) /\ UNCHANGED inputs
  \/ ScoreCountdownTick /\ UNCHANGED inputs
  \/ \E p \in Players :
       hist.starts = 0 /\ handleReadyToStart(p) /\ UNCHANGED inputs
  \/ \E p \in Players :
       inputs < MaxTeardownInputs /\ ReadyStateLeavesOpen(p) /\ UNCHANGED inputs
  \/ Counted(MaxTeardownInputs) /\ TeardownInbound

\* the serve is the diagonal one, which ends in a goal
InitTeardown == Init /\ gameState.ballVelocityY # 0

SpecTeardown == InitTeardown /\ [][NextTeardown]_vars

\* SpecDelivery: a match up to its first goals during which a player's
\* socket stops being OPEN while the session is still running (the close
\* event has not been handled yet).  Sockets fail while the ball is at rest.
MaxDeliveryInputs == 1
MaxDeliveryGoals == 1

NextDelivery ==
  \/ startBettingLobby /\ UNCHANGED inputs
  \/ BettingTimerExpired /\ ~(player1Ready \/ player2Ready) /\ UNCHANGED inputs
  \/ CountdownWithin /\ UNCHANGED inputs
  \/ TickWithin(MaxDeliveryGoals) /\ UNCHANGED inputs
  \/ ScoreCountdownTick /\ UNCHANGED inputs
  \/ \E p \in Players :
       hist.starts = 0 /\ handleReadyToStart(p) /\ UNCHANGED inputs
  \/ \E p \in Players :
       Counted(MaxDeliveryInputs) /\ Quiescent /\ ReadyStateLeavesOpen(p)

SpecDelivery == InitTeardown /\ [][NextDelivery]_vars

\* ws.on('message') when JSON.parse throws: the catch block reports to the
\* sender
handleInvalidMessage(c) ==
  /\ wsOpen[c]
  /\ out' = sendToPlayer(wsOpen, Msg(c, "error", 0))
  /\ UNCHANGED <<physVars, countdown, timerVars, wagerVars, abilityVars,
                 pauseVars, connVars, mmVars, now, hist>>

\* handleClientMessage for a message whose type is none of the handled ones
\* (default branch: console.log only) or is 'ready' or 'rematch' (break)
handleUnknownMessage(c) ==
  /\ wsOpen[c]
  /\ out' = <<>>
  /\ UNCHANGED <<physVars, countdown, timerVars, wagerVars, abilityVars,
                 pauseVars, connVars, mmVars, now, hist>>

\* ws.on('message') for a message on which handleClientMessage throws: the
\* text null (message.type of null) and a join_queue without data
\* (playerData.displayName of undefined, first statement of handleJoinQueue).
\* handleClientMessage is async and its promise is not awaited, so the catch
\* block of ws.on('message') does not see the exception: nothing is sent, and
\* the unhandled rejection ends the Node.js process, and with it every
\* connection, the queue, the lookup, the sessions and their timers.
handleThrowingMessage(c) ==
  /\ wsOpen[c]
  /\ out' = <<>>
  /\ wsOpen' = [k \in Clients |-> FALSE]
  /\ activeSessions' = {}
  /\ lobbyStartPending' = FALSE
  /\ matchmakingQueue' = <<>>
  /\ joinPending' = [k \in Clients |-> 0]
  /\ sessions' = <<>>
  /\ gameLoop' = NULL /\ gameLoopLive' = 0
  /\ countdownInterval' = NULL /\ countdownLive' = 0
  /\ scoreCountdownInterval' = NULL /\ scoreCountdownLive' = 0
  /\ bettingTimer' = NULL
  /\ UNCHANGED <<physVars, countdown, wagerVars, abilityVars, pauseVars, now,
                 hist>>

\* SpecDispatch: the betting lobby and the pre-match countdown, during which
\* clients send malformed messages; these are the counted inputs.  A
\* malformed message is one that cannot be parsed, one whose type is not a
\* command, one on which the dispatcher throws, or a command of a player
\* whose payload field is missing or wrong: the dispatcher passes message.y,
\* message.abilityType and message.amount on as they are (an abilityType
\* that names no ability, or undefined, becomes a member of the used set like
\* any value).
MaxBadInputs == 2

DispatchInbound ==
  \/ \E c \in Clients : handleInvalidMessage(c)
  \/ \E c \in Clients : handleUnknownMessage(c)
  \/ \E c \in Clients : handleThrowingMessage(c)
  \/ \E p \in Players : updatePaddlePosition(p, UNDEFINED)
  \/ \E p \in Players, abilityType \in {"foo", "undefined"} :
       handleUseUltimate(p, abilityType)
  \/ \E p \in Players : handleSetBet(p, UNDEFINED)

NextDispatch ==
  \/ startBettingLobby /\ UNCHANGED inputs
  \/ BettingTimerExpired /\ UNCHANGED inputs
  \/ CountdownWithin /\ UNCHANGED inputs
  \/ \E p \in Players, amount \in BetAmounts :
       hist.starts = 0 /\ handleSetBet(p, amount) /\ UNCHANGED inputs
  \/ \E p \in Players :
       hist.starts = 0 /\ handleReadyToStart(p) /\ UNCHANGED inputs
  \/ Counted(MaxBadInputs) /\ DispatchInbound

SpecDispatch == Init /\ [][NextDispatch]_vars

\* SpecPause: matches without commands other than the two ready signals,
\* followed through their first score pauses.  The interval timer of the
\* post-score countdown fires every second, so its callback is taken
\* whenever it stays scheduled.
MaxPauseGoals == 2

ScoreCountdownFires == ScoreCountdownTick /\ UNCHANGED inputs

NextPause ==
  \/ startBettingLobby /\ UNCHANGED inputs
  \/ BettingTimerExpired /\ ~(player1Ready \/ player2Ready) /\ UNCHANGED inputs
  \/ CountdownWithin /\ UNCHANGED inputs
  \/ TickWithin(MaxPauseGoals) /\ UNCHANGED inputs
  \/ ScoreCountdownFires
  \/ \E p \in Players :
       hist.starts = 0 /\ handleReadyToStart(p) /\ UNCHANGED inputs

SpecPause == Init /\ [][NextPause]_vars /\ WF_vars(ScoreCountdownFires)

\* SpecFreeze: a match up to its first goal in which the players use the
\* time distortion; the activations are the counted inputs and are explored
\* while the ball is at rest (before the game loop starts, during the score
\* pause), the clock reading of every tick under a distortion is drawn from
\* ClockTimes.
MaxFreezeInputs == 2
MaxFreezeGoals == 1

NextFreeze ==
  \/ startBettingLobby /\ UNCHANGED inputs
  \/ BettingTimerExpired /\ ~(player1Ready \/ player2Ready) /\ UNCHANGED inputs
  \/ CountdownWithin /\ UNCHANGED inputs
  \/ TickWithin(MaxFreezeGoals) /\ UNCHANGED inputs
  \/ ScoreCountdownTick /\ UNCHANGED inputs
  \/ \E p \in Players :
       hist.starts = 0 /\ ~lobbyStartPending /\ handleReadyToStart(p)
         /\ UNCHANGED inputs
  \/ \E p \in Players :
       Counted(MaxFreezeInputs) /\ hist.starts > 0 /\ Quiescent
         /\ handleUseUltimate(p, "time_freeze")

SpecFreeze == InitTeardown /\ [][NextFreeze]_vars

\* SpecNegotiation: the wager negotiation and the pre-match countdown with
\* bets, ready signals, leaves and disconnects, up to the start of the game
\* loop.  The betting window is a setTimeout and the countdown a setInterval
\* of the Node.js event loop, which runs a due callback as long as the timer
\* is not cancelled: both callbacks are weakly fair.
MaxNegotiationInputs == 3

NegotiationInbound ==
  \/ \E p \in Players, amount \in MatchBetAmounts : handleSetBet(p, amount)
  \/ \E p \in Players : handleReadyToStart(p)
  \/ \E p \in Players : handleLeave(p)
  \/ \E p \in Players : ~wsOpen[p] /\ Disconnect(p)

BettingTimerFires == BettingTimerExpired /\ UNCHANGED inputs

CountdownFires == CountdownWithin /\ UNCHANGED inputs

NextNegotiation ==
  \/ startBettingLobby /\ UNCHANGED inputs
  \/ BettingTimerFires
  \/ CountdownFires
  \/ \E p \in Players :
       inputs < MaxNegotiationInputs /\ ReadyStateLeavesOpen(p)
         /\ UNCHANGED inputs
  \/ Counted(MaxNegotiationInputs) /\ NegotiationInbound

SpecNegotiation ==
  /\ Init
  /\ [][NextNegotiation]_vars
  /\ WF_vars(BettingTimerFires)
  /\ WF_vars(CountdownFires)

\* SpecWager: the negotiation of SpecNegotiation with the amounts a client can
\* put in a set_bet message.  message.amount is stored as received (index.ts
\* and GameSession.handleSetBet test nothing about it), so a negative amount
\* is among them: the amounts explored are -5, 0 and 5.

MaxWagerInputs == 4

WagerInbound ==
  \/ \E p \in Players, amount \in {-5, 0, 5} : handleSetBet(p, amount)
  \/ \E p \in Players : handleReadyToStart(p)

NextWager ==
  \/ startBettingLobby /\ UNCHANGED inputs
  \/ BettingTimerFires
  \/ CountdownFires
  \/ Counted(MaxWagerInputs) /\ WagerInbound

SpecWager == Init /\ [][NextWager]_vars

\* SpecWalls: a ball served from the center at 30, 36, 40 or 45 degrees off
\* the horizontal (resetBall draws the angle from [-45, 45] degrees), towards
\* either side and either wall, followed over its wall bounces up to its
\* first goal.  The serve at 36 degrees (vertical velocity 3.5) takes the
\* ball exactly onto the edge: 350 px in 100 ticks.
WallVelocities ==
  {<<v[1] * dx, v[2] * dy>> :
     v \in {<<520, 3 * SCALE>>, <<487, 350>>, <<460, 386>>, <<424, 424>>},
     dx \in Directions, dy \in Directions}

InitWalls ==
  /\ \E v \in WallVelocities :
       gameState = [ballX |-> CANVAS_WIDTH \div 2,
                    ballY |-> CANVAS_HEIGHT \div 2,
                    ballVelocityX |-> v[1],
                    ballVelocityY |-> v[2],
                    paddle1Y |-> CANVAS_HEIGHT \div 2,
                    paddle2Y |-> CANVAS_HEIGHT \div 2,
                    paddle1Height |-> PADDLE_HEIGHT,
                    paddle2Height |-> PADDLE_HEIGHT,
                    score1 |-> 0,
                    score2 |-> 0,
                    gameStarted |-> TRUE]
  /\ prevBallX = CANVAS_WIDTH \div 2 /\ prevBallY = CANVAS_HEIGHT \div 2
  /\ countdown = 0
  /\ gameLoop = LIVE /\ countdownInterval = NULL
  /\ bettingTimer = NULL /\ scoreCountdownInterval = NULL
  /\ gameLoopLive = 1 /\ countdownLive = 0 /\ scoreCountdownLive = 0
  /\ player1Bet = 0 /\ player2Bet = 0
  /\ player1Ready = TRUE /\ player2Ready = TRUE
  /\ finalBetAmount = 0
  /\ timeFreezeActive = FALSE /\ timeFreezeEndTime = 0
  /\ ballSpeedMultiplier = NORMAL_MULTIPLIER
  /\ player1UsedUltimates = {} /\ player2UsedUltimates = {}
  /\ powerHitPlayer = 0
  /\ scoreCountdown = SCORE_COUNTDOWN_START /\ isPaused = FALSE
  /\ activeSessions = Players
  /\ lobbyStartPending = FALSE
  /\ wsOpen = [c \in Clients |-> TRUE]
  /\ matchmakingQueue = <<>>
  /\ joinPending = [c \in Clients |-> 0]
  /\ sessions = <<<<1, 2>>>>
  /\ now = 0
  /\ out = <<>>
  /\ hist = [HistInit EXCEPT !.starts = 1, !.resolutions = 1,
                             !.firstFinal = 0, !.announced = 0]
  /\ inputs = 0

NextWalls ==
  /\ gameState.score1 + gameState.score2 = 0
  /\ Tick
  /\ UNCHANGED inputs

SpecWalls == InitWalls /\ [][NextWalls]_vars

\* SpecDash: a match up to its first goal in which the players use the
\* paddle reposition; the repositions (and the repeated, rejected ones) are
\* the counted inputs and are explored while the ball is at rest: at the
\* center before the game loop starts, and where it left the field during the
\* score pause.
MaxDashInputs == 2
MaxDashGoals == 1

NextDash ==
  \/ startBettingLobby /\ UNCHANGED inputs
  \/ BettingTimerExpired /\ ~(player1Ready \/ player2Ready) /\ UNCHANGED inputs
  \/ CountdownWithin /\ UNCHANGED inputs
  \/ TickWithin(MaxDashGoals) /\ UNCHANGED inputs
  \/ ScoreCountdownTick /\ UNCHANGED inputs
  \/ \E p \in Players :
       hist.starts = 0 /\ ~lobbyStartPending /\ handleReadyToStart(p)
         /\ UNCHANGED inputs
  \/ \E p \in Players :
       Counted(MaxDashInputs) /\ hist.starts > 0 /\ Quiescent
         /\ handleUseUltimate(p, "paddle_dash")

SpecDash == InitTeardown /\ [][NextDash]_vars
---------------------------------------------------------------------------
(* Matchmaking (index.ts)                                                  *)

\* handleJoinQueue calls of one connection explored in flight at once
MaxPendingJoins == 2
\* join_queue, leave and close events explored by SpecMatchmaking
MaxJoinInputs == 4

\* a dequeue that takes the newest entry first
DequeuedNewestFirst(q) == <<q[2], q[1]>>

\* player1 = matchmakingQueue.shift(), player2 = matchmakingQueue.shift()
Dequeued(q) == <<q[1], q[2]>>

RECURSIVE MatchedPairs(_)
\* tryMatchmaking: the pairs matched by the while loop, in order
MatchedPairs(q) ==
  IF Len(q) >= 2
  THEN <<Dequeued(q)>> \o MatchedPairs(SubSeq(q, 3, Len(q)))
  ELSE <<>>

RECURSIVE QueueAfterMatching(_)
\* tryMatchmaking: the queue the while loop leaves
QueueAfterMatching(q) ==
  IF Len(q) >= 2 THEN QueueAfterMatching(SubSeq(q, 3, Len(q))) ELSE q

\* match_found: yourSide
MatchFoundMsg(to, yourSide) ==
  [Msg(to, "match_found", 0) EXCEPT !.side = yourSide]

RECURSIVE MatchFoundMsgs(_, _)
\* tryMatchmaking: the notifications of the while loop, in order
MatchFoundMsgs(open, pairs) ==
  IF pairs = <<>> THEN <<>>
  ELSE sendToPlayer(open, MatchFoundMsg(Head(pairs)[1], "left"))
         \o sendToPlayer(open, MatchFoundMsg(Head(pairs)[2], "right"))
         \o MatchFoundMsgs(open, Tail(pairs))

\* the join_queue command: handleJoinQueue up to its first await
handleJoinQueue(c) ==
  /\ wsOpen[c]
  /\ joinPending[c] < MaxPendingJoins
  /\ joinPending' =
       IF (\E i \in DOMAIN matchmakingQueue : matchmakingQueue[i] = c)
            \/ c \in activeSessions
       THEN joinPending
       ELSE [joinPending EXCEPT ![c] = @ + 1]
  /\ out' = <<>>
  /\ UNCHANGED <<physVars, countdown, timerVars, wagerVars, abilityVars,
                 pauseVars, connVars, matchmakingQueue, sessions, now, hist>>

\* handleJoinQueue from the end of its awaits: push, queue_joined,
\* tryMatchmaking
JoinQueueResume(c) ==
  /\ joinPending[c] > 0
  /\ joinPending' = [joinPending EXCEPT ![c] = @ - 1]
  /\ LET queue == Append(matchmakingQueue, c)
         pairs == MatchedPairs(queue)
     IN /\ matchmakingQueue' = QueueAfterMatching(queue)
        /\ out' = sendToPlayer(wsOpen, Msg(c, "queue_joined", Len(queue)))
                    \o MatchFoundMsgs(wsOpen, pairs)
        /\ sessions' = sessions \o pairs
        /\ activeSessions' =
             activeSessions \cup {pairs[i][k] : i \in DOMAIN pairs, k \in 1..2}
        /\ lobbyStartPending' = (lobbyStartPending \/ pairs # <<>>)
  /\ UNCHANGED <<physVars, countdown, timerVars, wagerVars, abilityVars,
                 pauseVars, wsOpen, now, hist>>

\* the server before any match: nobody queued, no session constructed (the
\* session fields hold the values the constructor will give them)
InitMatchmaking ==
  /\ gameState = [ballX |-> CANVAS_WIDTH \div 2, ballY |-> CANVAS_HEIGHT \div 2,
                  ballVelocityX |-> INITIAL_BALL_SPEED, ballVelocityY |-> 0,
                  paddle1Y |-> CANVAS_HEIGHT \div 2, paddle2Y |-> CANVAS_HEIGHT \div 2,
                  paddle1Height |-> PADDLE_HEIGHT, paddle2Height |-> PADDLE_HEIGHT,
                  score1 |-> 0, score2 |-> 0, gameStarted |-> FALSE]
  /\ prevBallX = 0 /\ prevBallY = 0
  /\ countdown = COUNTDOWN_DURATION
  /\ gameLoop = NULL /\ countdownInterval = NULL
  /\ bettingTimer = NULL /\ scoreCountdownInterval = NULL
  /\ gameLoopLive = 0 /\ countdownLive = 0 /\ scoreCountdownLive = 0
  /\ player1Bet = 0 /\ player2Bet = 0
  /\ player1Ready = FALSE /\ player2Ready = FALSE
  /\ finalBetAmount = 0
  /\ timeFreezeActive = FALSE /\ timeFreezeEndTime = 0
  /\ ballSpeedMultiplier = NORMAL_MULTIPLIER
  /\ player1UsedUltimates = {} /\ player2UsedUltimates = {}
  /\ powerHitPlayer = 0
  /\ scoreCountdown = SCORE_COUNTDOWN_START /\ isPaused = FALSE
  /\ activeSessions = {}
  /\ lobbyStartPending = FALSE
  /\ wsOpen = [c \in Clients |-> TRUE]
  /\ matchmakingQueue = <<>>
  /\ joinPending = [c \in Clients |-> 0]
  /\ sessions = <<>>
  /\ now = 0 /\ out = <<>> /\ hist = HistInit /\ inputs = 0

\* SpecMatchmaking: three clients join the queue, leave it and drop out,
\* in any order and with any interleaving of the awaits of handleJoinQueue;
\* the sessions are followed up to their construction.
MatchmakingInbound ==
  \/ \E c \in Clients : handleJoinQueue(c)
  \/ \E c \in Clients : c \notin activeSessions /\ handleLeave(c)
  \/ \E c \in Clients : ~wsOpen[c] /\ c \notin activeSessions /\ Disconnect(c)

NextMatchmaking ==
  \/ \E c \in Clients : JoinQueueResume(c) /\ UNCHANGED inputs
  \/ \E c \in Clients :
       inputs < MaxJoinInputs /\ c \notin activeSessions
         /\ ReadyStateLeavesOpen(c) /\ UNCHANGED inputs
  \/ Counted(MaxJoinInputs) /\ MatchmakingInbound

SpecMatchmaking == InitMatchmaking /\ [][NextMatchmaking]_vars
---------------------------------------------------------------------------
(* Properties of the wager negotiation (checked under SpecLobby)           *)

\* C1: whenever final_bet_amount is sent, every connected player receives
\* it, and the amount it carries, which is also the stored finalBetAmount,
\* is 0 if either current bet is 0 and the smaller of the two bets otherwise.
C1_WagerRule ==
  Sent("final_bet_amount") # {} =>
    /\ \A p \in Players : wsOpen[p] => SentTo(p, "final_bet_amount") # {}
    /\ \A i \in DOMAIN out :
         out[i].type = "final_bet_amount" =>
           /\ out[i].n = finalBetAmount
           /\ (player1Bet = 0 \/ player2Bet = 0) => finalBetAmount = 0
           /\ (player1Bet # 0 /\ player2Bet # 0) =>
                /\ finalBetAmount \in {player1Bet, player2Bet}
                /\ finalBetAmount <= player1Bet
                /\ finalBetAmount <= player2Bet

\* two different non-zero bets are resolved and announced to both players
C1_Witness ==
  /\ SentTo(1, "final_bet_amount") # {} /\ SentTo(2, "final_bet_amount") # {}
  /\ player1Bet = 10 /\ player2Bet = 5
  /\ finalBetAmount = 5

\* C2 (as stated): the wager is resolved and announced at most once, and
\* finalBetAmount keeps the amount of its first resolution.
C2_FinalizedOnce ==
  /\ hist.resolutions <= 1
  /\ hist.resolutions >= 1 => finalBetAmount = hist.firstFinal
---------------------------------------------------------------------------
(* Properties of paddles and hits (checked under SpecRally)                *)

\* C8 (as stated): in every reachable state each paddle's center lies within
\* [PADDLE_HEIGHT/2, CANVAS_HEIGHT - PADDLE_HEIGHT/2], the range of the
\* configured paddle height.
C8_PaddleWithinBounds ==
  /\ gameState.paddle1Y >= PADDLE_HEIGHT \div 2
  /\ gameState.paddle1Y <= CANVAS_HEIGHT - PADDLE_HEIGHT \div 2
  /\ gameState.paddle2Y >= PADDLE_HEIGHT \div 2
  /\ gameState.paddle2Y <= CANVAS_HEIGHT - PADDLE_HEIGHT \div 2

\* C9 (as stated): after the hit response of a paddle hit the ball's speed
\* does not exceed MAX_BALL_SPEED.
C9_HitSpeedCapped ==
  hist.lastHit # <<>> =>
    SpeedSq(gameState.ballVelocityX, gameState.ballVelocityY)
      <= MAX_BALL_SPEED * MAX_BALL_SPEED

\* C10 (as stated): after the hit response of a paddle hit the ball's speed
\* is at least its speed going into the hit (up to one unit of rounding in
\* each velocity component).
C10_HitNeverSlows ==
  hist.lastHit # <<>> =>
    SpeedSq(Abs(gameState.ballVelocityX) + 1, Abs(gameState.ballVelocityY) + 1)
      >= hist.preHitSq
---------------------------------------------------------------------------
(* Properties of abilities, scoring and game over (checked under Spec)     *)

\* C3: a use_ultimate of a kind the player has already used sends one error
\* to that player and nothing else, and leaves the speed multiplier, its
\* expiry, the paddle positions, the armed power-hit owner and both used
\* sets unchanged.
C3_SecondUseRejected ==
  [][\A p \in Players, abilityType \in AbilityKinds :
       (abilityType \in UsedUltimates(p) /\ handleUseUltimate(p, abilityType)) =>
         /\ out' = (IF wsOpen[p] THEN <<Msg(p, "error", 0)>> ELSE <<>>)
         /\ ballSpeedMultiplier' = ballSpeedMultiplier
         /\ timeFreezeActive' = timeFreezeActive
         /\ timeFreezeEndTime' = timeFreezeEndTime
         /\ gameState'.paddle1Y = gameState.paddle1Y
         /\ gameState'.paddle2Y = gameState.paddle2Y
         /\ powerHitPlayer' = powerHitPlayer
         /\ player1UsedUltimates' = player1UsedUltimates
         /\ player2UsedUltimates' = player2UsedUltimates]_vars

\* a player who has used an ability has just been refused a second use
C3_Witness ==
  \E p \in Players :
    /\ out = <<Msg(p, "error", 0)>>
    /\ UsedUltimates(p) # {}

\* C4: the tick in which a goal raises a score to WINNING_SCORE ends the
\* match at once: game_over goes to every connected player, the game loop
\* handle is cleared, no score countdown is started, isPaused stays false
\* and no countdown notification is sent.
C4_FinalPointEndsMatch ==
  [][(\/ gameState'.score1 > gameState.score1
           /\ gameState'.score1 >= WINNING_SCORE
      \/ gameState'.score2 > gameState.score2
           /\ gameState'.score2 >= WINNING_SCORE) =>
       /\ hist'.gameOvers = hist.gameOvers + 1
       /\ \A p \in Players :
            wsOpen[p] => \E i \in DOMAIN out' :
                           out'[i].type = "game_over" /\ out'[i].to = p
       /\ \A i \in DOMAIN out' : out'[i].type # "countdown"
       /\ gameLoop' = NULL
       /\ ~isPaused /\ ~isPaused'
       /\ scoreCountdown' = scoreCountdown
       /\ scoreCountdownInterval' = scoreCountdownInterval
       /\ scoreCountdownLive' = scoreCountdownLive]_vars

\* the final point of a match has just been scored
C4_Witness ==
  /\ Sent("game_over") # {}
  /\ hist.gameOvers = 1
  /\ gameState.score1 = WINNING_SCORE \/ gameState.score2 = WINNING_SCORE
  /\ ~isPaused
  /\ scoreCountdownLive = 0

\* C5 (as stated): once game_over has been sent, no step moves the ball,
\* changes a score or sends game_over again, and no timer of the session is
\* active.
C5_GameOverTerminal ==
  [][hist.gameOvers >= 1 =>
       /\ gameState'.ballX = gameState.ballX
       /\ gameState'.ballY = gameState.ballY
       /\ gameState'.score1 = gameState.score1
       /\ gameState'.score2 = gameState.score2
       /\ \A i \in DOMAIN out' : out'[i].type # "game_over"
       /\ gameLoopLive' = 0
       /\ countdownLive' = 0
       /\ scoreCountdownLive' = 0
       /\ bettingTimer' # LIVE]_vars

\* C6 (as stated): both scores are in 0..WINNING_SCORE, at most one of them
\* equals WINNING_SCORE, and a score equals WINNING_SCORE only after
\* game_over was sent.
C6_ScoresBounded ==
  /\ gameState.score1 \in 0..WINNING_SCORE
  /\ gameState.score2 \in 0..WINNING_SCORE
  /\ ~(gameState.score1 = WINNING_SCORE /\ gameState.score2 = WINNING_SCORE)
  /\ (gameState.score1 = WINNING_SCORE \/ gameState.score2 = WINNING_SCORE)
       => hist.gameOvers >= 1

\* C7: every game_over names as winner a side whose score has reached
\* WINNING_SCORE, carries both current scores, and carries as betAmount the
\* stored finalBetAmount, which is the amount of the last final_bet_amount
\* sent; it goes to every connected player.
C7_GameOverReport ==
  Sent("game_over") # {} =>
    /\ \A p \in Players : wsOpen[p] => SentTo(p, "game_over") # {}
    /\ \A i \in Sent("game_over") :
         /\ out[i].side \in {"left", "right"}
         /\ out[i].side = "left" => gameState.score1 >= WINNING_SCORE
         /\ out[i].side = "right" => gameState.score2 >= WINNING_SCORE
         /\ out[i].left = gameState.score1
         /\ out[i].right = gameState.score2
         /\ out[i].n = finalBetAmount
         /\ out[i].n = hist.announced

\* the right side wins a match played for a non-zero wager
C7_Witness ==
  \E i \in Sent("game_over") :
    /\ out[i].side = "right"
    /\ gameState.score2 = WINNING_SCORE
    /\ out[i].n = 5
---------------------------------------------------------------------------
(* SpecApproach: a ball in flight toward the stationary, centered left     *)
(* paddle.  The initial states place the ball on a straight line whose     *)
(* crossing of the paddle face (ball edge at paddle1Right) is the paddle   *)
(* center, at several speeds up to MAX_BALL_SPEED, angles and distances.   *)

\* <<vx, vy>> of the approaching ball: speeds 6, 10 and 15, angles from 0 to
\* 60 degrees off the horizontal
ApproachVelocities ==
  {<<-6 * SCALE, 0>>, <<-6 * SCALE, 3 * SCALE>>, <<-424, -424>>,
   <<-3 * SCALE, 520>>, <<-10 * SCALE, 0>>, <<-866, -5 * SCALE>>,
   <<-15 * SCALE, 0>>, <<-13 * SCALE, 748>>, <<-1060, -1060>>, <<-750, 1299>>}

\* horizontal distance of the ball from the crossing point; from 152 px the
\* horizontal approaches at speeds 6, 10 and 15 put the leading edge exactly
\* on the border of the padded zone (paddle1Right + 50, + 82, + 122) in one
\* of their ticks
ApproachDistances ==
  {143 * PIXEL, 150 * PIXEL, 152 * PIXEL, 155070, 190 * PIXEL}

InitApproach ==
  /\ \E v \in ApproachVelocities, d \in ApproachDistances :
       gameState = [ballX |-> paddle1Right + BALL_SIZE \div 2 + d,
                    ballY |-> CANVAS_HEIGHT \div 2 - Div(v[2] * d, -v[1]),
                    ballVelocityX |-> v[1],
                    ballVelocityY |-> v[2],
                    paddle1Y |-> CANVAS_HEIGHT \div 2,
                    paddle2Y |-> CANVAS_HEIGHT \div 2,
                    paddle1Height |-> PADDLE_HEIGHT,
                    paddle2Height |-> PADDLE_HEIGHT,
                    score1 |-> 0,
                    score2 |-> 0,
                    gameStarted |-> TRUE]
  /\ prevBallX = gameState.ballX - gameState.ballVelocityX * NORMAL_MULTIPLIER
  /\ prevBallY = gameState.ballY - gameState.ballVelocityY * NORMAL_MULTIPLIER
  /\ countdown = 0
  /\ gameLoop = LIVE /\ countdownInterval = NULL
  /\ bettingTimer = NULL /\ scoreCountdownInterval = NULL
  /\ gameLoopLive = 1 /\ countdownLive = 0 /\ scoreCountdownLive = 0
  /\ player1Bet = 0 /\ player2Bet = 0
  /\ player1Ready = TRUE /\ player2Ready = TRUE
  /\ finalBetAmount = 0
  /\ timeFreezeActive = FALSE /\ timeFreezeEndTime = 0
  /\ ballSpeedMultiplier = NORMAL_MULTIPLIER
  /\ player1UsedUltimates = {} /\ player2UsedUltimates = {}
  /\ powerHitPlayer = 0
  /\ scoreCountdown = SCORE_COUNTDOWN_START /\ isPaused = FALSE
  /\ activeSessions = Players
  /\ lobbyStartPending = FALSE
  /\ wsOpen = [c \in Clients |-> TRUE]
  /\ matchmakingQueue = <<>>
  /\ joinPending = [c \in Clients |-> 0]
  /\ sessions = <<<<1, 2>>>>
  /\ now = 0
  /\ out = <<>>
  /\ hist = [HistInit EXCEPT !.starts = 1, !.resolutions = 1,
                             !.firstFinal = 0, !.announced = 0]
  /\ inputs = 0

\* the approach is followed up to its hit or goal
NextApproach ==
  /\ hist.hits = 0
  /\ gameState.score1 + gameState.score2 = 0
  /\ Tick
  /\ UNCHANGED inputs

SpecApproach == InitApproach /\ [][NextApproach]_vars

\* C11: a ball approaching the stationary, centered left paddle on a straight
\* line through the center of the paddle face never gets behind the paddle
\* face without a left-paddle hit having been registered, and player 2 does
\* not score.
C11_NoTunneling ==
  /\ gameState.score2 = 0
  /\ hist.hits = 0 => gameState.ballX - BALL_SIZE \div 2 > paddle1Right
  /\ hist.hits > 0 => hist.lastHit \in {<<"leftSwept">>, <<"leftEmergency">>}

\* a ball at MAX_BALL_SPEED has just been returned by the left paddle
C11_Witness ==
  /\ hist.hits = 1
  /\ hist.lastHit = <<"leftSwept">>
  /\ hist.preHitSq >= (MAX_BALL_SPEED - SCALE) * (MAX_BALL_SPEED - SCALE)
  /\ gameState.ballVelocityX > 0
---------------------------------------------------------------------------
(* Properties of teardown (checked under SpecTeardown)                     *)

\* C12: once a disconnect has torn the session down, no timer of the session
\* is scheduled any more: no game loop, no pre-match countdown, no post-score
\* countdown, no betting window.
C12_TimersCancelled ==
  activeSessions = {} =>
    /\ gameLoopLive = 0
    /\ countdownLive = 0
    /\ scoreCountdownLive = 0
    /\ bettingTimer # LIVE

\* C13: the teardown that a leave or a close event of player p runs on a
\* session whose game is not over sends opponent_disconnected to the other
\* player (nothing when that player's socket is not open, nothing to anyone
\* else) and removes both connections from the lookup; once they are removed,
\* no inbound event changes the ready flags, the bets, the abilities or the
\* paddles of that session, and none is answered.
C13_DisconnectUnmaps ==
  [][ /\ \A p \in Players :
           (p \in activeSessions /\ hist.gameOvers = 0
              /\ (handleLeave(p) \/ Disconnect(p)))
             => /\ out' = (IF wsOpen[Other(p)]
                           THEN <<Msg(Other(p), "opponent_disconnected", 0)>>
                           ELSE <<>>)
                /\ activeSessions' \cap Players = {}
      /\ (activeSessions \cap Players = {} /\ inputs' # inputs)
           => /\ UNCHANGED <<player1Ready, player2Ready, player1Bet, player2Bet,
                             finalBetAmount, abilityVars>>
              /\ gameState'.paddle1Y = gameState.paddle1Y
              /\ gameState'.paddle2Y = gameState.paddle2Y
              /\ out' = <<>>
    ]_vars

\* player 1's socket has closed while the ball was in play, after player 1
\* had armed a power strike; the close event has just been handled and
\* player 2 told
C13_Witness ==
  /\ activeSessions = {}
  /\ ~wsOpen[1]
  /\ out = <<Msg(2, "opponent_disconnected", 0)>>
  /\ gameState.gameStarted
  /\ hist.gameOvers = 0
  /\ powerHitPlayer = 1
  /\ inputs = 2
---------------------------------------------------------------------------
(* Properties of the betting window (checked under SpecLobby) and of the   *)
(* session lookup                                                          *)

\* the step is the callback of the betting timer: no command was received
\* and the timer is no longer pending
BettingWindowExpires ==
  inputs' = inputs /\ bettingTimer = LIVE /\ bettingTimer' # LIVE

\* the betting window has expired with no ready player and the session has
\* not been through a disconnect or a wager resolution since
BettingTimedOut ==
  /\ ~lobbyStartPending
  /\ bettingTimer = NULL
  /\ hist.resolutions = 0
  /\ activeSessions # {}

\* C14: after the betting window has expired with neither player ready, no
\* command starts the match: no pre-match countdown begins and no game loop
\* runs.
C14_NoStartAfterTimeout ==
  [][BettingTimedOut =>
       /\ hist'.starts = hist.starts
       /\ countdownLive' = 0
       /\ gameLoopLive' = 0]_vars

\* C15: when the betting window expires with exactly one ready player, the
\* final amount is 0 if either player's last-set bet is 0 and the smaller bet
\* otherwise, final_bet_amount with that amount is sent to every connected
\* player, and one more pre-match countdown is scheduled.
C15_OneReadyProceeds ==
  [][(BettingWindowExpires /\ player1Ready # player2Ready) =>
       /\ finalBetAmount' = IF player1Bet = 0 \/ player2Bet = 0 THEN 0
                            ELSE IF player1Bet <= player2Bet THEN player1Bet
                            ELSE player2Bet
       /\ \A p \in Players :
            wsOpen[p] =>
              \E i \in DOMAIN out' :
                /\ out'[i].to = p
                /\ out'[i].type = "final_bet_amount"
                /\ out'[i].n = finalBetAmount'
       /\ \A i \in DOMAIN out' : out'[i].type = "final_bet_amount"
       /\ countdownInterval' = LIVE
       /\ countdownLive' = countdownLive + 1
       /\ countdown' = countdown
       /\ hist'.starts = hist.starts + 1]_vars

\* the window has just expired with player 1 ready on a bet of 10 and
\* player 2 unready on a bet of 5: the final amount is 5
C15_Witness ==
  /\ bettingTimer = DEAD
  /\ player1Ready /\ ~player2Ready
  /\ player1Bet = 10 /\ player2Bet = 5
  /\ finalBetAmount = 5
  /\ SentTo(1, "final_bet_amount") # {} /\ SentTo(2, "final_bet_amount") # {}
  /\ countdownLive = 1

\* C16: once both players are ready the callback of the betting timer never
\* runs.
C16_NoExpiryAfterBothReady ==
  [][(player1Ready /\ player2Ready) => ~BettingWindowExpires]_vars

\* C17: once the game is over, or the betting window has expired with no
\* ready player, neither connection is mapped to the session.
C17_DiscardedWhenOver ==
  (hist.gameOvers > 0 \/ (~lobbyStartPending /\ bettingTimer = NULL
                            /\ hist.resolutions = 0))
    => activeSessions = {}
---------------------------------------------------------------------------
(* Properties of the phases of a match (checked under Spec)                *)

\* C18: as long as the pre-match countdown is above 0 no game loop is
\* scheduled, the game is not started, no step moves the ball and no step
\* sends game_state; the step that takes the countdown to 0 sends the
\* countdown notification with count 0 to both players, marks the game
\* started and schedules the game loop.
C18_PhysicsStartsAtZero ==
  [][ /\ countdown > 0 =>
           /\ gameLoopLive = 0
           /\ ~gameState.gameStarted
           /\ gameState'.ballX = gameState.ballX
           /\ gameState'.ballY = gameState.ballY
           /\ \A i \in DOMAIN out' : out'[i].type # "game_state"
      /\ (countdown > 0 /\ countdown' <= 0) =>
           /\ countdown' = 0
           /\ \A p \in Players :
                wsOpen[p] =>
                  \E i \in DOMAIN out' :
                    /\ out'[i].to = p
                    /\ out'[i].type = "countdown"
                    /\ out'[i].n = 0
           /\ gameState'.gameStarted
           /\ gameLoop' = LIVE
           /\ gameLoopLive' = 1
    ]_vars

\* the countdown has just reached 0: count 0 was announced and the game loop
\* is scheduled, the ball still at the center
C18_Witness ==
  /\ countdown = 0
  /\ out = sendToBoth(wsOpen, "countdown", 0)
  /\ gameLoopLive = 1
  /\ gameState.gameStarted
  /\ hist.starts = 1
  /\ gameState.ballX = CANVAS_WIDTH \div 2

\* C19: game_state is sent only by a step taken while a started game is
\* neither paused after a goal nor over.
C19_GameStateOnlyWhilePlaying ==
  [][(\E i \in DOMAIN out' : out'[i].type = "game_state") =>
       /\ gameState.gameStarted
       /\ ~isPaused
       /\ hist.gameOvers = 0]_vars
---------------------------------------------------------------------------
(* Properties of matchmaking (checked under SpecMatchmaking)               *)

\* C20: the queue never rests with two or more entries; when a join
\* completes while another connection is waiting, the waiting (older)
\* connection and the joining one are removed from the queue together, the
\* older is sent match_found with side left and the newer with side right,
\* and one new session holding the two, in that order, is constructed with
\* both connections mapped.
C20_FifoMatchmaking ==
  [][ /\ Len(matchmakingQueue') < 2
      /\ \A c \in Clients :
           (joinPending'[c] < joinPending[c] /\ matchmakingQueue # <<>>) =>
             LET oldest == matchmakingQueue[1]
             IN /\ matchmakingQueue' = Tail(matchmakingQueue)
                /\ sessions' = Append(sessions, <<oldest, c>>)
                /\ {oldest, c} \subseteq activeSessions'
                /\ wsOpen[oldest] =>
                     \E i \in DOMAIN out' :
                       /\ out'[i].type = "match_found"
                       /\ out'[i].to = oldest
                       /\ out'[i].side = "left"
                /\ wsOpen[c] =>
                     \E i \in DOMAIN out' :
                       /\ out'[i].type = "match_found"
                       /\ out'[i].to = c
                       /\ out'[i].side = "right"
                /\ \A i \in DOMAIN out' :
                     out'[i].type = "match_found" =>
                       \/ out'[i].to = oldest /\ out'[i].side = "left"
                       \/ out'[i].to = c /\ out'[i].side = "right"
      /\ \A c \in Clients :
           (joinPending'[c] < joinPending[c] /\ matchmakingQueue = <<>>) =>
             /\ matchmakingQueue' = <<c>>
             /\ sessions' = sessions
             /\ activeSessions' = activeSessions
             /\ \A i \in DOMAIN out' : out'[i].type # "match_found"
    ]_vars

\* client 3 joined first and client 1 second: 3 plays left, 1 plays right
C20_Witness ==
  /\ sessions = << <<3, 1>> >>
  /\ matchmakingQueue = <<>>
  /\ activeSessions = {1, 3}
  /\ \E i \in DOMAIN out :
       out[i].type = "match_found" /\ out[i].to = 3 /\ out[i].side = "left"
  /\ \E i \in DOMAIN out :
       out[i].type = "match_found" /\ out[i].to = 1 /\ out[i].side = "right"
---------------------------------------------------------------------------
(* Properties of delivery (checked under SpecDelivery)                     *)

\* player p is sent the notification `type` with count n by this step
Delivers(p, type, n) ==
  \E i \in DOMAIN out' :
    out'[i].to = p /\ out'[i].type = type /\ out'[i].n = n

\* C21: while one player's socket is not open, every step still delivers its
\* notification to the other, open player (the pre-match countdown, the
\* post-score countdown, game_state on every tick that moves the ball), the
\* game loop stays scheduled and keeps moving the ball, and the countdown
\* still starts the game at 0.
C21_DeliveryIndependent ==
  [][\A p \in Players :
       (wsOpen[p] /\ ~wsOpen[Other(p)] /\ inputs' = inputs) =>
         /\ countdown' # countdown =>
              /\ Delivers(p, "countdown", countdown')
              /\ countdown' = 0 =>
                   gameState'.gameStarted /\ gameLoopLive' = gameLoopLive + 1
         /\ (scoreCountdown' # scoreCountdown \/ (isPaused' /\ ~isPaused)) =>
              Delivers(p, "countdown", scoreCountdown')
         /\ (gameState.ballX # gameState'.ballX /\ isPaused' = isPaused) =>
              Delivers(p, "game_state", 0)
         /\ (gameState.score1 + gameState.score2
               # gameState'.score1 + gameState'.score2) =>
              /\ isPaused' /\ scoreCountdownLive' = 1
              /\ Delivers(p, "game_state", 0)
         /\ gameLoopLive' >= gameLoopLive
         /\ (gameState.gameStarted /\ ~isPaused /\ countdown' = countdown
               /\ bettingTimer' = bettingTimer) =>
              gameState.ballX # gameState'.ballX
         /\ (isPaused /\ scoreCountdown = 1 /\ scoreCountdown' = 0) =>
              ~isPaused'
    ]_vars

\* player 1's socket failed, the session was not torn down, and after a
\* goal and its pause the ball is in play again with game_state going to
\* player 2
C21_Witness ==
  /\ ~wsOpen[1] /\ wsOpen[2]
  /\ activeSessions = Players
  /\ gameState.score1 + gameState.score2 = 1
  /\ ~isPaused
  /\ gameLoopLive = 1
  /\ out = <<Msg(2, "game_state", 0)>>
---------------------------------------------------------------------------
(* Properties of the command dispatch (checked under SpecDispatch)         *)

\* C22: a message that cannot be parsed or whose type is not a command makes
\* the server send exactly one error notification, to one connection, and
\* changes nothing of the queue, the lookup, the session or the wager.
C22_BadCommandReported ==
  [][inputs' # inputs =>
       /\ \E c \in Clients : out' = <<Msg(c, "error", 0)>>
       /\ UNCHANGED <<physVars, countdown, timerVars, wagerVars, abilityVars,
                      pauseVars, connVars, mmVars>>]_vars
---------------------------------------------------------------------------
(* Properties of the score pause                                           *)

\* C23: no step taken during the score pause and leaving the session in it
\* changes the ball position, the ball velocity, the scores or the paddle
\* heights.
C23_PauseFreezesPhysics ==
  [][(isPaused /\ isPaused') =>
       /\ gameState'.ballX = gameState.ballX
       /\ gameState'.ballY = gameState.ballY
       /\ gameState'.ballVelocityX = gameState.ballVelocityX
       /\ gameState'.ballVelocityY = gameState.ballVelocityY
       /\ gameState'.score1 = gameState.score1
       /\ gameState'.score2 = gameState.score2
       /\ gameState'.paddle1Height = gameState.paddle1Height
       /\ gameState'.paddle2Height = gameState.paddle2Height
       /\ prevBallX' = prevBallX /\ prevBallY' = prevBallY]_vars

\* the game loop has fired during the pause after the second goal: the state
\* was broadcast and the ball still lies beyond the goal line
C23_Witness ==
  /\ isPaused
  /\ gameState.score1 + gameState.score2 = 2
  /\ scoreCountdown = 1
  /\ out = sendToBoth(wsOpen, "game_state", 0)
  /\ (gameState.ballX <= 0 \/ gameState.ballX >= CANVAS_WIDTH)

\* C24: a score pause starts with the countdown notification 3, counts down
\* by one per firing with the notifications 2, 1 and 0, and ends only in the
\* step that sends 0; that step puts the ball and the previous-position
\* fields at the playfield center, cancels the post-score timer and resumes
\* play.  Every score pause ends.
C24_PauseCompletes ==
  /\ [][ /\ (~isPaused /\ isPaused') =>
              /\ scoreCountdown' = SCORE_COUNTDOWN_START
              /\ scoreCountdownLive' = 1
              /\ \A p \in Players : Delivers(p, "countdown", SCORE_COUNTDOWN_START)
         /\ (isPaused /\ scoreCountdown' # scoreCountdown) =>
              /\ scoreCountdown' = scoreCountdown - 1
              /\ scoreCountdown' >= 0
              /\ out' = sendToBoth(wsOpen, "countdown", scoreCountdown')
         /\ (isPaused /\ ~isPaused') => scoreCountdown' = 0
         /\ (isPaused /\ scoreCountdown' = 0) =>
              /\ gameState'.ballX = CANVAS_WIDTH \div 2
              /\ gameState'.ballY = CANVAS_HEIGHT \div 2
              /\ prevBallX' = CANVAS_WIDTH \div 2
              /\ prevBallY' = CANVAS_HEIGHT \div 2
              /\ scoreCountdownInterval' = NULL
              /\ scoreCountdownLive' = 0
              /\ ~isPaused'
              /\ gameState'.gameStarted
              /\ gameLoopLive' > 0
       ]_vars
  /\ (isPaused ~> ~isPaused)

\* the pause after the first goal has just ended: 0 was announced and the
\* ball is back at the center
C24_Witness ==
  /\ ~isPaused
  /\ scoreCountdown = 0
  /\ gameState.score1 + gameState.score2 = 1
  /\ out = sendToBoth(wsOpen, "countdown", 0)
  /\ gameState.ballX = CANVAS_WIDTH \div 2
  /\ prevBallX = CANVAS_WIDTH \div 2
  /\ scoreCountdownLive = 0
---------------------------------------------------------------------------
(* Properties of the abilities during play (checked under SpecRally)       *)

\* the step applied a hit response of paddle `side`
HitBy(side) ==
  /\ hist'.hits > hist.hits
  /\ hist'.lastHit \in (IF side = 1 THEN {<<"leftSwept">>, <<"leftEmergency">>}
                                    ELSE {<<"rightSwept">>, <<"rightEmergency">>})

\* C25: a player's armed power strike stays armed until that player's own
\* next paddle hit, whatever the opponent does in between.
C25_ArmedUntilOwnHit ==
  [][\A p \in Players :
       (powerHitPlayer = p /\ ~HitBy(p)) => powerHitPlayer' = p]_vars

\* C26: a hit response calls speedUpBall once for an ordinary hit and twice
\* for a perfect hit; when the hitting player's power strike is armed the 8
\* calls of the strike take the place of the single ordinary one.
C26_RampStepCount ==
  [][\A side \in Players :
       HitBy(side) =>
         LET perfect == Abs(hist'.lastOffset) <= PERFECT_HIT_ZONE
         IN IF powerHitPlayer = side
            THEN hist'.lastRamps \in (IF perfect THEN {POWER_HIT_STEPS,
                                                       POWER_HIT_STEPS + 1}
                                                 ELSE {POWER_HIT_STEPS})
            ELSE hist'.lastRamps = (IF perfect THEN 2 ELSE 1)]_vars
---------------------------------------------------------------------------
(* Properties of the time distortion (checked under SpecFreeze)            *)

\* the step is a game-loop firing whose updatePhysics ran past its guards
PhysicsRan ==
  /\ gameLoopLive > 0
  /\ gameState.gameStarted /\ ~isPaused
  /\ inputs' = inputs
  /\ countdown' = countdown
  /\ bettingTimer' = bettingTimer
  /\ lobbyStartPending' = lobbyStartPending

\* C27: the ball-speed multiplier is the slow fraction or 1; an accepted time
\* distortion, the first or a later one, sets it to the slow fraction, with
\* the expiry 4 seconds after that activation, and leaves the ball alone; a
\* physics tick whose clock reading is at or after the expiry restores the
\* multiplier to 1 and moves the ball by its full velocity, an earlier one
\* keeps the slow fraction and moves the ball by that fraction of its
\* velocity; nothing else changes the multiplier or the expiry.
C27_TimeDistortion ==
  [][ /\ ballSpeedMultiplier' \in {SLOW_MULTIPLIER, NORMAL_MULTIPLIER}
      /\ inputs' # inputs =>
           IF <<player1UsedUltimates', player2UsedUltimates'>>
                # <<player1UsedUltimates, player2UsedUltimates>>
           THEN /\ ballSpeedMultiplier' = SLOW_MULTIPLIER
                /\ timeFreezeActive'
                /\ timeFreezeEndTime' = now' + TIME_FREEZE_MS
                /\ gameState' = gameState
           ELSE UNCHANGED <<ballSpeedMultiplier, timeFreezeActive,
                            timeFreezeEndTime, gameState>>
      /\ PhysicsRan =>
           LET restored == timeFreezeActive /\ now' >= timeFreezeEndTime
               slow == timeFreezeActive /\ ~restored
           IN /\ ballSpeedMultiplier' = (IF slow THEN SLOW_MULTIPLIER
                                                 ELSE NORMAL_MULTIPLIER)
              /\ timeFreezeActive' = slow
              /\ timeFreezeEndTime' = timeFreezeEndTime
              /\ hist'.lastHit = <<>> =>
                   \* a length in 1/PIXEL pixel, from a velocity in 1/SCALE
                   \* pixel per tick and a fraction in tenths
                   gameState'.ballX - gameState.ballX
                     = gameState.ballVelocityX
                         * (IF slow THEN SLOW_MULTIPLIER ELSE NORMAL_MULTIPLIER)
      /\ (inputs' = inputs /\ ~PhysicsRan) =>
           UNCHANGED <<ballSpeedMultiplier, timeFreezeActive, timeFreezeEndTime>>
    ]_vars

\* the second distortion, activated at clock 4000 while the first one, of
\* clock 0, was due to expire, runs until 8000: the tick at clock 4000 has
\* just moved the ball by the slow fraction and restored nothing
C27_Witness ==
  /\ "time_freeze" \in player1UsedUltimates
  /\ "time_freeze" \in player2UsedUltimates
  /\ timeFreezeEndTime = 2 * TIME_FREEZE_MS
  /\ now = TIME_FREEZE_MS
  /\ timeFreezeActive
  /\ ballSpeedMultiplier = SLOW_MULTIPLIER
  /\ hist.slowTicks >= 1
  /\ gameState.gameStarted /\ ~isPaused
  /\ out = sendToBoth(wsOpen, "game_state", 0)
  /\ Abs(gameState.ballX - prevBallX)
       = Abs(gameState.ballVelocityX) * SLOW_MULTIPLIER
---------------------------------------------------------------------------
(* Properties of the paddle reposition (checked under SpecDash) and of the *)
(* hit responses (checked under SpecApproach and Spec)                     *)

\* the step is an accepted paddle_dash of player p
DashAccepted(p) ==
  /\ "paddle_dash" \notin UsedUltimates(p)
  /\ IF p = 1 THEN "paddle_dash" \in player1UsedUltimates'
              ELSE "paddle_dash" \in player2UsedUltimates'

\* C28: an accepted paddle reposition puts the invoker's paddle center
\* exactly at the ball's current Y and changes nothing else: the other
\* paddle, both paddle heights, the ball, its velocity, the scores, the
\* wager, the pause, the timers and the other abilities stay as they were.
C28_DashFrame ==
  [][\A p \in Players :
       DashAccepted(p) =>
         /\ gameState' = IF p = 1
                         THEN [gameState EXCEPT !.paddle1Y = gameState.ballY]
                         ELSE [gameState EXCEPT !.paddle2Y = gameState.ballY]
         /\ UNCHANGED <<prevBallX, prevBallY, countdown, timerVars, wagerVars,
                        pauseVars, timeFreezeActive, timeFreezeEndTime,
                        ballSpeedMultiplier, powerHitPlayer>>
    ]_vars

\* player 2 has repositioned during a score pause, with the ball resting
\* away from the middle of the field and from the paddle's old place
C28_Witness ==
  /\ "paddle_dash" \in player2UsedUltimates
  /\ isPaused
  /\ gameState.ballY # CANVAS_HEIGHT \div 2
  /\ gameState.paddle2Y = gameState.ballY
  /\ gameState.paddle1Y = CANVAS_HEIGHT \div 2

C30_HorizontalNeverZero ==
  /\ gameState.ballVelocityX # 0
  /\ (hist.lastHit # <<>> /\ Head(hist.lastHit) \in {"leftSwept", "leftEmergency"})
       => gameState.ballVelocityX > 0
  /\ (hist.lastHit # <<>> /\ Head(hist.lastHit) \in {"rightSwept", "rightEmergency"})
       => gameState.ballVelocityX < 0

\* the right paddle has just returned a ball that the left paddle had
\* returned before
C30_Witness ==
  /\ hist.hits = 2
  /\ hist.lastHit = <<"rightSwept">>
  /\ gameState.ballVelocityX < 0
---------------------------------------------------------------------------
(* Properties of the paddle heights, the walls and the scoring             *)

\* C31: a physics tick that applies a hit response, of whatever kind and on
\* whichever paddle, lowers each paddle's height by exactly one per-hit
\* shrink amount, not below the minimum shrunk height.  The configuration
\* the claim speaks of is taken as a minimum of a third of PADDLE_HEIGHT
\* ("down to 33% minimum" in the comment of speedUpBall) and a shrink amount
\* of 5 pixels; any positive amount gives the same verdict.
C31_OneShrinkPerHit ==
  [][hist'.hits # hist.hits =>
       LET minimum == PADDLE_HEIGHT \div 3
           shrink == 5 * PIXEL
       IN /\ gameState'.paddle1Height
               = Max(minimum, gameState.paddle1Height - shrink)
          /\ gameState'.paddle2Height
               = Max(minimum, gameState.paddle2Height - shrink)
    ]_vars

\* C32: the ball's Y never leaves [BALL_SIZE/2, CANVAS_HEIGHT - BALL_SIZE/2].
\* In a physics tick without a paddle hit the horizontal velocity is kept and
\* the vertical velocity is kept or negated; a ball that the tick's movement
\* takes beyond the top or bottom edge is put on that edge with its vertical
\* velocity negated, one that it leaves strictly inside the field keeps its
\* vertical velocity, and one that it takes exactly onto an edge stays on that
\* edge (whether it is turned around there is decided by rounding).
C32_WallBounce ==
  [][ /\ gameState'.ballY >= BALL_SIZE \div 2
      /\ gameState'.ballY <= CANVAS_HEIGHT - BALL_SIZE \div 2
      /\ (PhysicsRan /\ hist'.lastHit = <<>>) =>
           LET landed == gameState.ballY
                           + gameState.ballVelocityY * ballSpeedMultiplier'
               top == BALL_SIZE \div 2
               bottom == CANVAS_HEIGHT - BALL_SIZE \div 2
           IN /\ gameState'.ballVelocityX = gameState.ballVelocityX
              /\ gameState'.ballVelocityY
                   \in {gameState.ballVelocityY, -gameState.ballVelocityY}
              /\ landed < top =>
                   /\ gameState'.ballY = top
                   /\ gameState'.ballVelocityY = -gameState.ballVelocityY
              /\ landed > bottom =>
                   /\ gameState'.ballY = bottom
                   /\ gameState'.ballVelocityY = -gameState.ballVelocityY
              /\ (top <= landed /\ landed <= bottom) =>
                   gameState'.ballY = landed
              /\ (top < landed /\ landed < bottom) =>
                   gameState'.ballVelocityY = gameState.ballVelocityY
    ]_vars

\* the ball, served upwards at 45 degrees, has just bounced off the top
\* edge: it was moved beyond the edge, put back on it and turned around
C32_Witness ==
  /\ gameState.gameStarted /\ ~isPaused
  /\ hist.lastHit = <<>>
  /\ gameState.ballY = BALL_SIZE \div 2
  /\ prevBallY - 424 * NORMAL_MULTIPLIER < BALL_SIZE \div 2
  /\ gameState.ballVelocityY = 424

\* C33: a score changes only in a physics tick that leaves the whole ball
\* beyond a goal edge (ballX + BALL_SIZE/2 <= 0 or ballX - BALL_SIZE/2 >=
\* CANVAS_WIDTH); off the left edge exactly score2 grows by one, off the
\* right edge exactly score1, and the other score is unchanged.
C33_ScoreOnlyFullyPast ==
  [][ <<gameState'.score1, gameState'.score2>>
        # <<gameState.score1, gameState.score2>> =>
      /\ PhysicsRan
      /\ \/ /\ gameState'.ballX + BALL_SIZE \div 2 <= 0
            /\ gameState'.score2 = gameState.score2 + 1
            /\ gameState'.score1 = gameState.score1
         \/ /\ gameState'.ballX - BALL_SIZE \div 2 >= CANVAS_WIDTH
            /\ gameState'.score1 = gameState.score1 + 1
            /\ gameState'.score2 = gameState.score2
    ]_vars
---------------------------------------------------------------------------
(* Properties of the session timers                                        *)

\* C35: once a disconnect has discarded the session (in particular before
\* the dispatcher's delayed startBettingLobby has fired), no betting window
\* is started for it and no step sends betting_timeout or final_bet_amount.
C35_NoLobbyForDiscardedSession ==
  [][activeSessions = {} =>
       /\ bettingTimer' = LIVE => bettingTimer = LIVE
       /\ \A i \in DOMAIN out' :
            out'[i].type \notin {"betting_timeout", "final_bet_amount"}
    ]_vars

\* the betting window is open
AwaitingBets == bettingTimer = LIVE

\* the tick loop runs
Playing == gameState.gameStarted /\ gameLoopLive > 0

\* the session was discarded by a leave or a disconnect
Discarded == activeSessions = {}

\* the betting window expired with no ready player and nothing was started
ExpiredIdle == bettingTimer = NULL /\ hist.starts = 0 /\ NobodyReady

\* C36: under fair firing of the betting timer and of the countdown timer,
\* every open betting window is left; unless a player leaves or the window
\* expires with nobody ready, the session gets to the running tick loop; and
\* every pre-match countdown started for a session that is not discarded
\* reaches 0 and starts the tick loop.
C36_NegotiationCompletes ==
  /\ AwaitingBets ~> ~AwaitingBets
  /\ AwaitingBets ~> (Playing \/ Discarded \/ ExpiredIdle)
  /\ (countdownInterval = LIVE) ~> (Playing \/ Discarded)

\* the window expired with one ready player, the countdown ran down and the
\* tick loop was started
C36_Witness ==
  /\ Playing
  /\ bettingTimer = DEAD
  /\ player1Ready /\ ~player2Ready
  /\ countdown = 0
  /\ activeSessions = Players

\* C37: whatever ready_to_start commands arrive and whenever the betting
\* window expires, a session has at most one pre-match countdown timer and at
\* most one game-loop timer scheduled, start() is called at most once, and
\* the countdown value never goes below 0.
C37_SingleCountdownAndLoop ==
  /\ countdownLive <= 1
  /\ gameLoopLive <= 1
  /\ hist.starts <= 1
  /\ countdown >= 0
---------------------------------------------------------------------------
(* Properties of matchmaking under interleaved joins (SpecMatchmaking)     *)

\* C38: however the join_queue handlers interleave with each other and with
\* disconnects, a connection occupies at most one slot: it is at most once
\* in the matchmaking queue, it is not queued while mapped to a session, and
\* the two players of every session are distinct connections.
C38_OneSlotPerConnection ==
  /\ \A i, j \in DOMAIN matchmakingQueue :
       matchmakingQueue[i] = matchmakingQueue[j] => i = j
  /\ \A i \in DOMAIN matchmakingQueue : matchmakingQueue[i] \notin activeSessions
  /\ \A i \in DOMAIN sessions : sessions[i][1] # sessions[i][2]

\* ---------------------------------------------------------------------------
\* Properties of the resolved wager over every accepted amount
\* ---------------------------------------------------------------------------

\* C39: whatever amounts set_bet stored, the finalBetAmount of a resolution is
\* never negative, and when both bets are non-zero it is not greater than
\* either player's bet.
C39_ResolvedWagerBounds ==
  [][hist'.resolutions # hist.resolutions =>
       /\ finalBetAmount' >= 0
       /\ (player1Bet # 0 /\ player2Bet # 0) =>
            /\ finalBetAmount' <= player1Bet
            /\ finalBetAmount' <= player2Bet]_vars

===========================================================================
